---- MODULE Spec2Model ----
(***************************************************************************)
(* A model of the MinerU Tianshu backend.  The API server                  *)
(* (backend/api_server.py): the task endpoints (submit, status, cancel,    *)
(* list), the queue and admin endpoints, and the static file service, over *)
(* the task store (TaskDB), the uploads directory and the output tree.     *)
(* The supervisor of the services (backend/start_all.py), the PaddleOCR-VL *)
(* engine (backend/paddleocr_vl_vllm/engine.py) and the PDF splitter       *)
(* (backend/utils/pdf_utils.py).                                           *)
(*                                                                         *)
(* Specifications sharing the variables:                               *)
(*   Spec       the task life cycle: submit, status, cancel (in the two    *)
(*              steps the scheduler process can interleave with), and the  *)
(*              scheduler's claim / complete / fail;                       *)
(*   SpecQueue  the queue and admin endpoints over a populated store, with *)
(*              a clock;                                                   *)
(*   SpecFiles  the static file service over a populated output tree;      *)
(*   SpecResults the status endpoint on a task with results (Markdown,     *)
(*              JSON, images, the result_minio.md cache) and the rewriting *)
(*              of image references, with the object store.                *)
(*   SpecMarkdown the status endpoint choosing among several Markdown      *)
(*              files, in every order the directory walk can list them;    *)
(*   SpecSupervisor the supervisor starting, watching and stopping its     *)
(*              children, with signals; SpecSupervisorFair adds that the   *)
(*              supervisor keeps running;                                  *)
(*   SpecEngine the engine singleton under two threads calling the         *)
(*              constructor, get_engine and parse;                         *)
(*   SpecParse  the same on files of several pages;                        *)
(*   SpecSplit  split_pdf_file, one step per turn of its loop;             *)
(*   SpecLayouts the status endpoint over the layouts of a result          *)
(*              directory, and the static file service asked for the URLs  *)
(*              it returned;                                               *)
(*   SpecFaults the status endpoint when a read or the rewriting raises.   *)
(***************************************************************************)
EXTENDS Integers, Sequences, FiniteSets, TLC

VARIABLES
    tasks,        \* the tasks table: task id -> row
    seq,          \* rows ever inserted (the next task id is seq + 1)
    uploads,      \* names of the files present in /app/uploads
    uuids,        \* uuid4() values drawn for upload names so far
    outfiles,     \* files present in and beside OUTPUT_DIR (paths as segment sequences)
    cancelling,   \* a cancel_task call between its read of the row and its write
    now,          \* the clock the task store stamps rows with
    text,         \* the content of the Markdown files a result is read from: path -> content
    bucket,       \* the names of the objects in the object store's bucket
    resp,         \* the last event: the request served and its response
    launcher,     \* the supervisor's options: start_local_vllm, vllm_model_path, enable_mcp
    processes,    \* self.processes: the names of the children recorded, in launch order
    children,     \* the child processes: service name -> absent / running / serving / exited
    pc,           \* where the supervisor is: statement, service, index or iteration
    exit_status,  \* the exit status of the supervisor: <<>> while it runs, then <<status>>
    log,          \* what the supervisor has logged, and the signals it has received
    instances,    \* the PaddleOCRVLVLLMEngine instances created: their attributes
    instance,     \* PaddleOCRVLVLLMEngine._instance: 0 (None) or the index of an instance
    engine,       \* the module global _engine: 0 (None) or the index of an instance
    lock,         \* PaddleOCRVLVLLMEngine._lock: 0 (free) or the thread that holds it
    threads,      \* the threads of the worker process: the call each is in and where
    counts,       \* how often the initialisation body and the pipeline constructor ran
    documents,    \* the files given to parse: what the pipeline predicts for each
    split         \* a call of split_pdf_file: its arguments, loop variable and chunks

apiVars == <<tasks, seq, uploads, uuids, outfiles, cancelling, now, text, bucket, resp>>

supVars == <<launcher, processes, children, pc, exit_status, log>>

engVars == <<instances, instance, engine, lock, threads, counts, documents>>

\* The state of the processes beside the API server.
hostVars == <<supVars, engVars, split>>

vars == <<tasks, seq, uploads, uuids, outfiles, cancelling, now, text, bucket, resp, launcher,
          processes, children, pc, exit_status, log, instances, instance, engine, lock, threads,
          counts, documents, split>>

(***************************************************************************)
(* Bounds of the model.                                                    *)
(***************************************************************************)
MaxSubmits == 2

(***************************************************************************)
(* Users and permissions.  The auth package is a collaborator: a bearer    *)
(* token resolves to a user with has_permission(p), or to nobody.          *)
(***************************************************************************)
Permissions == {"TASK_SUBMIT", "TASK_VIEW_ALL", "TASK_DELETE_ALL", "QUEUE_VIEW", "QUEUE_MANAGE"}

Users == {"alice", "bob", "manager", "admin"}

\* A request whose Authorization header is missing or invalid.
NoUser == "anon"

Callers == Users \cup {NoUser}

PermsOf(u) ==
    CASE u = "alice"   -> {"TASK_SUBMIT"}
      [] u = "bob"     -> {"TASK_SUBMIT"}
      [] u = "manager" -> {"TASK_VIEW_ALL", "QUEUE_VIEW"}
      [] u = "admin"   -> Permissions
      [] OTHER         -> {}

has_permission(u, p) == p \in PermsOf(u)

\* Depends(get_current_active_user): 401 without a valid token.
get_current_active_user(caller) == IF caller \in Users THEN 200 ELSE 401

\* Depends(require_permission(p)): 401 without a valid token, 403 without p.
require_permission(caller, p) ==
    IF caller \notin Users THEN 401
    ELSE IF ~has_permission(caller, p) THEN 403
    ELSE 200

(***************************************************************************)
(* Rows of the tasks table.                                                *)
(***************************************************************************)
Statuses == {"pending", "processing", "completed", "failed", "cancelled"}

\* A column that holds NULL.
Null == <<>>

(***************************************************************************)
(* The processes beside the API server (backend/start_all.py): the         *)
(* supervisor and the children it launches.  While the API server alone is *)
(* studied they are at rest.                                               *)
(***************************************************************************)
VLLM == "VLLM Service"

API == "API Server"

WORKERS == "LitServe Workers"

SCHEDULER == "Task Scheduler"

MCP == "MCP Server"

Services == {VLLM, API, WORKERS, SCHEDULER, MCP}

\* A position of the supervisor: the statement it is at, the service or the
\* index into self.processes the statement is about, the iterations done.
At(at, name, i) == [at |-> at, name |-> name, i |-> i]

\* TianshuLauncher.__init__ with its defaults: nothing launched yet.
SupIdle ==
    /\ launcher = [start_local_vllm |-> FALSE, vllm_model_path |-> Null, enable_mcp |-> FALSE]
    /\ processes = <<>>
    /\ children = [s \in Services |-> "absent"]
    /\ pc = At("idle", "", 0)
    /\ exit_status = Null
    /\ log = <<>>

(***************************************************************************)
(* The worker process (backend/paddleocr_vl_vllm/engine.py and             *)
(* backend/utils/pdf_utils.py) at rest: no engine created, no thread in a  *)
(* call, no PDF being split.                                               *)
(***************************************************************************)
Threads == {1, 2}

\* The frame of a thread: the call it is in (op) and the statement it is at
\* (pc), the arguments (device, file), self, the value returned and how the
\* call ended, whether cleanup() has run in the call, the calls made so far.
Frame(pc_, op, device, file, self, ret, outcome, cleaned, calls) ==
    [pc |-> pc_, op |-> op, device |-> device, file |-> file, self |-> self, ret |-> ret,
     outcome |-> outcome, cleaned |-> cleaned, calls |-> calls]

IdleFrame == Frame("idle", "none", <<>>, "", 0, 0, "none", FALSE, 0)

EngIdle ==
    /\ instances = <<>>
    /\ instance = 0
    /\ engine = 0
    /\ lock = 0
    /\ threads = [t \in Threads |-> IdleFrame]
    /\ counts = [init |-> 0, load |-> 0]
    /\ documents = <<>>

\* No call of split_pdf_file.
NoSplit == [total_pages |-> 0, chunk_size |-> 1, i |-> 0, chunks |-> <<>>, at |-> "idle"]

HostIdle == SupIdle /\ EngIdle /\ split = NoSplit

\* db.create_task: a new row, status pending, stamped with the clock.
create_task(file_name, file_path, backend, options, priority, user_id, t) ==
    [file_name |-> file_name, file_path |-> file_path, backend |-> backend,
     options |-> options, priority |-> priority, user_id |-> user_id,
     status |-> "pending", retry_count |-> 0, worker_id |-> Null,
     result_path |-> Null, error_message |-> Null,
     created_at |-> <<t>>, started_at |-> Null, completed_at |-> Null]

\* db.get_task: the row, or nothing.
get_task(store, task_id) ==
    IF task_id \in DOMAIN store THEN <<store[task_id]>> ELSE <<>>

\* db.update_task_status(task_id, status): writes the status column of the row.
update_task_status(store, task_id, status) ==
    IF task_id \in DOMAIN store
    THEN [store EXCEPT ![task_id].status = status]
    ELSE store

\* The insertion of a row under a new key.
Insert(store, task_id, row) ==
    [k \in DOMAIN store \cup {task_id} |-> IF k = task_id THEN row ELSE store[k]]

(***************************************************************************)
(* Events.  An event is the request served (who asked, for which task,     *)
(* with which parameters) and its response: the HTTP status and body, the  *)
(* sequence of JSON objects the response carries (empty for an             *)
(* HTTPException, which carries only its detail).  db lists the task store *)
(* operations the handler invoked.  A step of the scheduler is an event    *)
(* with code 0.                                                            *)
(***************************************************************************)
Event(op, caller, task_id, req, code, body, db) ==
    [op |-> op, caller |-> caller, task_id |-> task_id, req |-> req,
     code |-> code, body |-> body, db |-> db]

NoEvent == Event("none", NoUser, 0, <<>>, 0, <<>>, <<>>)

\* MAX_RETRIES, the task store's configured retry limit.
MAX_RETRIES == 1

(***************************************************************************)
(* The scheduler process's task store operations.                          *)
(***************************************************************************)
SchedulerWorker == "scheduler-1"

Pending(store) == {k \in DOMAIN store : store[k].status = "pending"}

\* Whether row a is claimed before row b: higher priority, then older, then
\* inserted earlier.
ClaimedBefore(store, a, b) ==
    \/ store[a].priority > store[b].priority
    \/ /\ store[a].priority = store[b].priority
       /\ \/ store[a].created_at[1] < store[b].created_at[1]
          \/ store[a].created_at[1] = store[b].created_at[1] /\ a < b

\* claim_next: the pending row every other pending row comes after.
NextPending(store) ==
    {k \in Pending(store) : \A j \in Pending(store) \ {k} : ClaimedBefore(store, k, j)}

claim_next(store, task_id, worker_id, t) ==
    [store EXCEPT ![task_id].status = "processing",
                  ![task_id].worker_id = <<worker_id>>,
                  ![task_id].started_at = <<t>>]

\* <output>/<task_id>
OUTPUT_DIR == <<"app", "output">>

ResultPath(task_id) == OUTPUT_DIR \o <<ToString(task_id)>>

complete(store, task_id, result_path, t) ==
    [store EXCEPT ![task_id].status = "completed",
                  ![task_id].completed_at = <<t>>,
                  ![task_id].result_path = <<result_path>>]

fail(store, task_id, error_message, retryable, t) ==
    IF retryable /\ store[task_id].retry_count < MAX_RETRIES
    THEN [store EXCEPT ![task_id].status = "pending",
                       ![task_id].retry_count = @ + 1,
                       ![task_id].worker_id = Null,
                       ![task_id].started_at = Null]
    ELSE [store EXCEPT ![task_id].status = "failed",
                       ![task_id].error_message = <<error_message>>,
                       ![task_id].completed_at = <<t>>]

ClaimNext ==
    /\ \E k \in NextPending(tasks) :
          /\ tasks' = claim_next(tasks, k, SchedulerWorker, now)
          /\ resp' = Event("claim", SchedulerWorker, k, <<>>, 0, <<>>, <<"claim_next">>)
    /\ UNCHANGED <<seq, uploads, uuids, outfiles, cancelling, now, text, bucket, hostVars>>

Complete ==
    /\ \E k \in DOMAIN tasks :
          /\ tasks[k].status = "processing"
          /\ tasks' = complete(tasks, k, ResultPath(k), now)
          /\ outfiles' = outfiles \cup {ResultPath(k) \o <<"result.md">>}
          /\ resp' = Event("complete", SchedulerWorker, k, <<>>, 0, <<>>, <<"complete">>)
    /\ UNCHANGED <<seq, uploads, uuids, cancelling, now, text, bucket, hostVars>>

Fail ==
    /\ \E k \in DOMAIN tasks, retryable \in BOOLEAN :
          /\ tasks[k].status = "processing"
          /\ tasks' = fail(tasks, k, "engine error", retryable, now)
          /\ resp' = Event("fail", SchedulerWorker, k, <<>>, 0, <<>>, <<"fail">>)
    /\ UNCHANGED <<seq, uploads, uuids, outfiles, cancelling, now, text, bucket, hostVars>>

(***************************************************************************)
(* POST /api/v1/tasks/submit                                               *)
(***************************************************************************)
\* The multipart forms a client sends: the file's name, backend, priority and
\* the engine options (lang stands for the option fields, which the handler
\* copies one by one into the options map).
FormA == [file_name |-> "a.pdf", backend |-> "auto", priority |-> 0, lang |-> "auto"]

FormB == [file_name |-> "a.pdf", backend |-> "pipeline", priority |-> 5, lang |-> "ch"]

Forms == {FormA, FormB}

\* The submit requests of the model: who sends which form.
SubmitRequests ==
    {<<"alice", FormA>>, <<"alice", FormB>>, <<"bob", FormA>>,
     <<"manager", FormA>>, <<NoUser, FormA>>}

\* What the handler body's I/O may do: succeed; open() of the upload raises (no
\* file is created); db.create_task raises after the upload was written.
SubmitIO == {"ok", "open_fails", "db_fails"}

unique_filename_shared(uuid, file_name) == <<0, file_name>>

\* unique_filename = f"{uuid.uuid4().hex}_{file.filename}"
unique_filename(uuid, file_name) == <<uuid, file_name>>

\* temp_file_path = upload_dir / unique_filename
UPLOAD_DIR == <<"app", "uploads">>

temp_file_path(uuid, file_name) == <<UPLOAD_DIR, unique_filename(uuid, file_name)>>

submit_options(form) == [lang |-> form.lang]

submit_dependency_none(caller) == 200

\* current_user: User = Depends(require_permission(Permission.TASK_SUBMIT))
submit_dependency(caller) == require_permission(caller, "TASK_SUBMIT")

submit_response(task_id, form, caller) ==
    [task_id |-> task_id, status |-> "pending", file_name |-> form.file_name,
     user_id |-> caller]

submit_task(caller, form, io) ==
    IF submit_dependency(caller) # 200
    THEN /\ resp' = Event("submit", caller, 0, <<form>>, submit_dependency(caller), <<>>, <<>>)
         /\ UNCHANGED <<tasks, seq, uploads, uuids, outfiles, cancelling, now, text, bucket, hostVars>>
    ELSE /\ uuids < MaxSubmits
         /\ uuids' = uuids + 1
         /\ LET path == temp_file_path(uuids + 1, form.file_name) IN
            CASE io = "open_fails" ->
                   /\ resp' = Event("submit", caller, 0, <<form>>, 500, <<>>, <<>>)
                   /\ UNCHANGED <<tasks, seq, uploads>>
              [] io = "db_fails" ->
                   /\ uploads' = uploads \cup {path[2]}
                   /\ resp' = Event("submit", caller, 0, <<form>>, 500, <<>>, <<"create_task">>)
                   /\ UNCHANGED <<tasks, seq>>
              [] OTHER ->
                   /\ uploads' = uploads \cup {path[2]}
                   /\ seq' = seq + 1
                   /\ tasks' = Insert(tasks, seq + 1,
                                      create_task(form.file_name, path, form.backend,
                                                  submit_options(form), form.priority,
                                                  caller, now))
                   /\ resp' = Event("submit", caller, seq + 1, <<form>>, 200,
                                    <<submit_response(seq + 1, form, caller)>>, <<"create_task">>)
         /\ UNCHANGED <<outfiles, cancelling, now, text, bucket, hostVars>>

Submit == \E r \in SubmitRequests, io \in SubmitIO : submit_task(r[1], r[2], io)

(***************************************************************************)
(* GET /api/v1/tasks/{task_id}                                             *)
(***************************************************************************)
view_allowed_any(task, caller) == TRUE

\* if not current_user.has_permission(TASK_VIEW_ALL):
\*     if task.get("user_id") != current_user.user_id: raise 403
view_allowed(task, caller) ==
    has_permission(caller, "TASK_VIEW_ALL") \/ task.user_id = caller

\* The response's status fields, copied from the row.
status_response(task_id, task) ==
    [task_id |-> task_id, status |-> task.status, file_name |-> task.file_name,
     backend |-> task.backend, priority |-> task.priority,
     error_message |-> task.error_message, created_at |-> task.created_at,
     started_at |-> task.started_at, completed_at |-> task.completed_at,
     worker_id |-> task.worker_id, retry_count |-> task.retry_count,
     user_id |-> task.user_id]

get_task_status(caller, task_id) ==
    /\ resp' =
         IF get_current_active_user(caller) # 200
         THEN Event("get", caller, task_id, <<>>, get_current_active_user(caller), <<>>, <<>>)
         ELSE LET task == get_task(tasks, task_id) IN
              IF task = <<>> THEN Event("get", caller, task_id, <<>>, 404, <<>>, <<"get_task">>)
              ELSE IF ~view_allowed(task[1], caller)
                   THEN Event("get", caller, task_id, <<>>, 403, <<>>, <<"get_task">>)
                   ELSE Event("get", caller, task_id, <<>>, 200,
                              <<status_response(task_id, task[1])>>, <<"get_task">>)
    /\ UNCHANGED <<tasks, seq, uploads, uuids, outfiles, cancelling, now, text, bucket, hostVars>>

\* The task ids a client may ask for: those issued so far and one never issued.
AskedIds == 1..(seq + 1)

GetTaskStatus == \E caller \in Callers, task_id \in AskedIds : get_task_status(caller, task_id)

(***************************************************************************)
(* DELETE /api/v1/tasks/{task_id}                                          *)
(*                                                                         *)
(* The handler reads the row (db.get_task), decides on that copy, and then *)
(* writes (db.update_task_status, unlink).  The scheduler is another       *)
(* process on the same store, so its steps can fall between the read and   *)
(* the write: cancel_read is the handler up to the decision, cancel_write  *)
(* the rest.                                                               *)
(***************************************************************************)
cancel_allowed_any(task, caller) == TRUE

\* if not current_user.has_permission(TASK_DELETE_ALL):
\*     if task.get("user_id") != current_user.user_id: raise 403
cancel_allowed(task, caller) ==
    has_permission(caller, "TASK_DELETE_ALL") \/ task.user_id = caller

cancellable_unfinished(task) == task.status \in {"pending", "processing"}

\* if task["status"] == "pending":
cancellable(task) == task.status = "pending"

\* raise HTTPException(status_code=400, ...) for a task that is not pending
CANCEL_REFUSED == 400

cancel_unlink_skipped(files, file_path) == files

\* file_path = Path(task["file_path"]); if file_path.exists(): file_path.unlink()
cancel_unlink(files, file_path) ==
    IF file_path[1] = <<"app", "uploads">> /\ file_path[2] \in files
    THEN files \ {file_path[2]}
    ELSE files

cancel_read(caller, task_id) ==
    /\ cancelling = <<>>
    /\ IF get_current_active_user(caller) # 200
       THEN /\ resp' = Event("cancel", caller, task_id, <<>>, get_current_active_user(caller), <<>>, <<>>)
            /\ UNCHANGED cancelling
       ELSE LET task == get_task(tasks, task_id) IN
            IF task = <<>>
            THEN /\ resp' = Event("cancel", caller, task_id, <<>>, 404, <<>>, <<"get_task">>)
                 /\ UNCHANGED cancelling
            ELSE IF ~cancel_allowed(task[1], caller)
            THEN /\ resp' = Event("cancel", caller, task_id, <<>>, 403, <<>>, <<"get_task">>)
                 /\ UNCHANGED cancelling
            ELSE IF cancellable(task[1])
            THEN /\ cancelling' = <<[caller |-> caller, task_id |-> task_id,
                                      file_path |-> task[1].file_path]>>
                 /\ resp' = Event("cancel_read", caller, task_id, <<>>, 0, <<>>, <<"get_task">>)
            ELSE /\ resp' = Event("cancel", caller, task_id, <<>>, CANCEL_REFUSED, <<>>, <<"get_task">>)
                 /\ UNCHANGED cancelling
    /\ UNCHANGED <<tasks, seq, uploads, uuids, outfiles, now, text, bucket, hostVars>>

cancel_write ==
    /\ cancelling # <<>>
    /\ LET c == cancelling[1] IN
          /\ tasks' = update_task_status(tasks, c.task_id, "cancelled")
          /\ uploads' = cancel_unlink(uploads, c.file_path)
          /\ resp' = Event("cancel", c.caller, c.task_id, <<>>, 200, <<[success |-> TRUE]>>,
                          <<"get_task", "update_task_status">>)
    /\ cancelling' = <<>>
    /\ UNCHANGED <<seq, uuids, outfiles, now, text, bucket, hostVars>>

CancelRead == \E caller \in Callers, task_id \in AskedIds : cancel_read(caller, task_id)

CancelWrite == cancel_write

(***************************************************************************)
(* The task life cycle.                                                    *)
(***************************************************************************)
Init ==
    /\ tasks = <<>>
    /\ seq = 0
    /\ uploads = {}
    /\ uuids = 0
    /\ outfiles = {}
    /\ cancelling = <<>>
    /\ now = 0
    /\ text = <<>>
    /\ bucket = {}
    /\ HostIdle
    /\ resp = NoEvent

Next ==
    \/ Submit
    \/ GetTaskStatus
    \/ CancelRead
    \/ CancelWrite
    \/ ClaimNext
    \/ Complete
    \/ Fail

Spec == Init /\ [][Next]_vars

(***************************************************************************)
(* Properties of the task endpoints, checked under Spec.                   *)
(*                                                                         *)
(* Every action records its event in resp, so in a step resp' names the    *)
(* request being served, the unprimed variables are the state it found and *)
(* the primed ones the state it left.                                      *)
(***************************************************************************)
StoreUnchanged == tasks' = tasks /\ uploads' = uploads /\ seq' = seq

\* The file name of a row's staged upload inside /app/uploads.
UploadOf(task) == task.file_path[2]

\* C2: GET /api/v1/tasks/{id} on an existing task by a user who is not its
\* owner and lacks TASK_VIEW_ALL answers 403 with no body; the owner and any
\* holder of TASK_VIEW_ALL get 200 with the row's fields.
C2_ViewOwnerOrViewAll ==
    (resp.op = "get" /\ resp.caller \in Users /\ resp.task_id \in DOMAIN tasks) =>
        LET task == tasks[resp.task_id] IN
        IF task.user_id # resp.caller /\ ~has_permission(resp.caller, "TASK_VIEW_ALL")
        THEN resp.code = 403 /\ resp.body = <<>>
        ELSE /\ resp.code = 200
             /\ Len(resp.body) = 1
             /\ resp.body[1].user_id = task.user_id
             /\ resp.body[1].status = task.status
             /\ resp.body[1].file_name = task.file_name

\* C2 witness: a user was refused another user's task, which is still there.
C2_Witness ==
    /\ resp.op = "get" /\ resp.code = 403
    /\ resp.task_id \in DOMAIN tasks
    /\ tasks[resp.task_id].user_id \in Users \ {resp.caller}

\* A step that serves a DELETE request on row task_id as the handler read it.
CancelRequest ==
    /\ cancelling = <<>>
    /\ resp'.op \in {"cancel", "cancel_read"}
    /\ resp'.task_id \in DOMAIN tasks

\* C3 as stated: a DELETE by a caller allowed to cancel, on a task that is not
\* pending, answers 409 and changes nothing.
C3_NonPendingIs409 ==
    [][(/\ CancelRequest
        /\ tasks[resp'.task_id].status # "pending"
        /\ resp'.caller \in Users
        /\ cancel_allowed(tasks[resp'.task_id], resp'.caller))
       => (resp'.code = 409 /\ StoreUnchanged)]_vars

\* C3 amended: a DELETE on a task that is not pending is refused and changes
\* neither the store nor the uploads; the refusal is 400 for a caller allowed
\* to cancel, 403 for another user and 401 without a valid token.
C3_NonPendingRefused ==
    [][(CancelRequest /\ tasks[resp'.task_id].status # "pending")
       => /\ StoreUnchanged
          /\ cancelling' = <<>>
          /\ resp'.code =
                IF resp'.caller \notin Users THEN 401
                ELSE IF cancel_allowed(tasks[resp'.task_id], resp'.caller) THEN 400
                ELSE 403]_vars

\* C3 witness: a caller allowed to cancel was refused on a task that is
\* processing, completed, failed or cancelled.
C3_Witness ==
    /\ resp.op = "cancel" /\ resp.code = 400
    /\ resp.task_id \in DOMAIN tasks
    /\ tasks[resp.task_id].status \in Statuses \ {"pending"}

\* C4: whatever the interleaving of a DELETE with the scheduler, a task becomes
\* cancelled only from pending, and the staged upload of a task that was
\* already claimed is not deleted.
C4_CancelOnlyWhilePending ==
    [][\A k \in DOMAIN tasks :
          /\ (k \in DOMAIN tasks' /\ tasks'[k].status = "cancelled")
                => tasks[k].status \in {"pending", "cancelled"}
          /\ (tasks[k].status \in {"processing", "completed", "failed"}
                /\ UploadOf(tasks[k]) \in uploads)
                => UploadOf(tasks[k]) \in uploads']_vars

\* C5: a DELETE by a user who neither owns the task nor holds TASK_DELETE_ALL
\* answers 403 and changes neither the store nor the uploads, whatever the
\* task's status; the owner and a TASK_DELETE_ALL holder are never answered 403.
C5_CancelOwnerOrDeleteAll ==
    [][(/\ resp'.op \in {"cancel", "cancel_read"}
        /\ resp'.caller \in Users
        /\ resp'.task_id \in DOMAIN tasks)
       => LET task == tasks[resp'.task_id] IN
          IF task.user_id # resp'.caller /\ ~has_permission(resp'.caller, "TASK_DELETE_ALL")
          THEN resp'.code = 403 /\ StoreUnchanged /\ cancelling' = cancelling
          ELSE resp'.code # 403]_vars

\* C5 witness: a user was refused the cancel of another user's task.
C5_Witness ==
    /\ resp.op = "cancel" /\ resp.code = 403
    /\ resp.task_id \in DOMAIN tasks
    /\ tasks[resp.task_id].user_id \in Users \ {resp.caller}

\* A step that completes a DELETE with 200.
CancelSucceeds ==
    /\ cancelling # <<>>
    /\ resp'.op = "cancel" /\ resp'.code = 200
    /\ resp'.task_id \in DOMAIN tasks

\* C6: a successful cancel of a task that is pending leaves it cancelled with
\* its staged upload gone from disk, and changes no other column of the row, no
\* other row and no other file.
C6_CancelEffect ==
    [][(CancelSucceeds /\ tasks[resp'.task_id].status = "pending")
       => LET k == resp'.task_id IN
          /\ tasks' = [tasks EXCEPT ![k].status = "cancelled"]
          /\ UploadOf(tasks[k]) \notin uploads'
          /\ uploads' = uploads \ {UploadOf(tasks[k])}
          /\ outfiles' = outfiles]_vars

\* C6 witness: a cancel succeeded while another task and its upload exist.
C6_Witness ==
    /\ resp.op = "cancel" /\ resp.code = 200
    /\ tasks[resp.task_id].status = "cancelled"
    /\ \E k \in DOMAIN tasks \ {resp.task_id} : UploadOf(tasks[k]) \in uploads

\* C7: a submit without a valid token is answered 401, one by a user without
\* TASK_SUBMIT 403, and neither creates a row nor writes a file to uploads.
C7_SubmitNeedsPermission ==
    [][(/\ resp'.op = "submit"
        /\ (resp'.caller \notin Users \/ ~has_permission(resp'.caller, "TASK_SUBMIT")))
       => /\ resp'.code = IF resp'.caller \notin Users THEN 401 ELSE 403
          /\ resp'.body = <<>>
          /\ StoreUnchanged
          /\ uuids' = uuids]_vars

\* C7 witness: a submit without a valid token was answered 401 while the store
\* already holds a task.
C7_Witness ==
    /\ resp.op = "submit" /\ resp.code = 401 /\ resp.caller = NoUser
    /\ DOMAIN tasks # {}

\* C8: a successful submit inserts exactly one row: pending, the caller's, with
\* the form's file name, backend, priority and options, its file_path a file
\* written by this request under /app/uploads as <uuid>_<file name> and shared
\* with no other row; the response carries the new task id and "pending".
C8_SubmitCreatesOneRow ==
    [][(resp'.op = "submit" /\ resp'.code = 200)
       => LET k == resp'.task_id
              form == resp'.req[1]
          IN
          /\ k \notin DOMAIN tasks
          /\ DOMAIN tasks' = DOMAIN tasks \cup {k}
          /\ \A j \in DOMAIN tasks : tasks'[j] = tasks[j]
          /\ tasks'[k].status = "pending"
          /\ tasks'[k].user_id = resp'.caller
          /\ tasks'[k].file_name = form.file_name
          /\ tasks'[k].backend = form.backend
          /\ tasks'[k].priority = form.priority
          /\ tasks'[k].options = [lang |-> form.lang]
          /\ tasks'[k].file_path[1] = <<"app", "uploads">>
          /\ UploadOf(tasks'[k])[2] = form.file_name
          /\ UploadOf(tasks'[k]) \notin uploads
          /\ uploads' = uploads \cup {UploadOf(tasks'[k])}
          /\ \A j \in DOMAIN tasks : tasks[j].file_path # tasks'[k].file_path
          /\ resp'.body = <<[task_id |-> k, status |-> "pending",
                             file_name |-> form.file_name, user_id |-> resp'.caller]>>]_vars

\* C8 witness: a second upload of the same file name was accepted while the
\* first one's staged file is still there.
C8_Witness ==
    /\ resp.op = "submit" /\ resp.code = 200
    /\ \E j \in DOMAIN tasks \ {resp.task_id} :
          /\ tasks[j].file_name = tasks[resp.task_id].file_name
          /\ UploadOf(tasks[j]) \in uploads
          /\ UploadOf(tasks[resp.task_id]) \in uploads

(***************************************************************************)
(* The queue and admin endpoints: GET /api/v1/queue/stats,                 *)
(* GET /api/v1/queue/tasks, POST /api/v1/admin/cleanup and                 *)
(* POST /api/v1/admin/reset-stale.  The clock counts minutes.              *)
(***************************************************************************)
MaxRows == 2
MaxTime == 2

IsPrefix(p, q) == Len(p) <= Len(q) /\ SubSeq(q, 1, Len(p)) = p

Min(a, b) == IF a <= b THEN a ELSE b

\* ORDER BY created_at DESC; rows stamped in the same minute are taken in
\* reverse order of insertion.
Newer(store, a, b) ==
    \/ store[a].created_at[1] > store[b].created_at[1]
    \/ store[a].created_at[1] = store[b].created_at[1] /\ a > b

RECURSIVE NewestFirst(_, _)
NewestFirst(store, ids) ==
    IF ids = {} THEN <<>>
    ELSE LET k == CHOOSE k \in ids : \A j \in ids \ {k} : Newer(store, k, j)
         IN <<k>> \o NewestFirst(store, ids \ {k})

\* LIMIT ? of SQLite: a negative limit is no limit.
SqlLimit(rows, limit) ==
    IF limit < 0 THEN rows ELSE SubSeq(rows, 1, Min(limit, Len(rows)))

\* dict(row) of SELECT * FROM tasks
RowDict(store, k) == [task_id |-> k] @@ store[k]

\* SELECT * FROM tasks WHERE <where> ORDER BY created_at DESC LIMIT ?
Select(store, ids, limit) ==
    LET order == SqlLimit(NewestFirst(store, ids), limit)
    IN [i \in 1..Len(order) |-> RowDict(store, order[i])]

\* db.get_tasks_by_status(status, limit)
get_tasks_by_status(store, status, limit) ==
    Select(store, {k \in DOMAIN store : store[k].status = status}, limit)

\* SELECT * FROM tasks ORDER BY created_at DESC LIMIT ?
select_all(store, limit) == Select(store, DOMAIN store, limit)

\* SELECT * FROM tasks WHERE user_id = ? AND status = ? ORDER BY ... LIMIT ?
select_user_status(store, user_id, status, limit) ==
    Select(store, {k \in DOMAIN store : store[k].user_id = user_id /\ store[k].status = status},
           limit)

\* SELECT * FROM tasks WHERE user_id = ? ORDER BY ... LIMIT ?
select_user(store, user_id, limit) ==
    Select(store, {k \in DOMAIN store : store[k].user_id = user_id}, limit)

\* limit: int = Query(100, le=1000)
LIST_LIMIT_DEFAULT == 100
LIST_LIMIT_MAX == 1000

\* The limits and status filters a client asks with (no filter is <<>>).
AskedLimits == {-1, 1, LIST_LIMIT_DEFAULT, LIST_LIMIT_MAX + 1}

AskedStatus == {<<>>, <<"pending">>, <<"completed">>}

list_tasks(caller, status, limit) ==
    /\ resp' =
         IF get_current_active_user(caller) # 200
         THEN Event("list", caller, 0, <<status, limit>>, get_current_active_user(caller),
                    <<>>, <<>>)
         ELSE IF limit > LIST_LIMIT_MAX
         THEN Event("list", caller, 0, <<status, limit>>, 422, <<>>, <<>>)
         ELSE LET can_view_all == has_permission(caller, "TASK_VIEW_ALL")
                  rows == IF can_view_all
                          THEN IF status # <<>>
                               THEN get_tasks_by_status(tasks, status[1], limit)
                               ELSE select_all(tasks, limit)
                          ELSE IF status # <<>>
                               THEN select_user_status(tasks, caller, status[1], limit)
                               ELSE select_user(tasks, caller, limit)
              IN Event("list", caller, 0, <<status, limit>>, 200,
                       <<[count |-> Len(rows), tasks |-> rows, can_view_all |-> can_view_all]>>,
                       IF can_view_all /\ status # <<>>
                       THEN <<"get_tasks_by_status">> ELSE <<"get_cursor">>)
    /\ UNCHANGED <<tasks, seq, uploads, uuids, outfiles, cancelling, now, text, bucket, hostVars>>

ListTasks ==
    \E caller \in Callers, status \in AskedStatus, limit \in AskedLimits :
        list_tasks(caller, status, limit)

\* db.get_queue_stats(): status -> count
db_get_queue_stats(store) ==
    [st \in Statuses |-> Cardinality({k \in DOMAIN store : store[k].status = st})]

stats_dependency_none(caller) == 200

\* current_user: User = Depends(require_permission(Permission.QUEUE_VIEW))
stats_dependency(caller) == require_permission(caller, "QUEUE_VIEW")

get_queue_stats(caller) ==
    /\ resp' =
         IF stats_dependency(caller) # 200
         THEN Event("stats", caller, 0, <<>>, stats_dependency(caller), <<>>, <<>>)
         ELSE Event("stats", caller, 0, <<>>, 200,
                    <<[stats |-> db_get_queue_stats(tasks),
                       total |-> Cardinality(DOMAIN tasks), user |-> caller]>>,
                    <<"get_queue_stats">>)
    /\ UNCHANGED <<tasks, seq, uploads, uuids, outfiles, cancelling, now, text, bucket, hostVars>>

GetQueueStats == \E caller \in Callers : get_queue_stats(caller)

\* The time a row is aged by: completed_at, or created_at if it never completed.
AgedFrom(task) ==
    IF task.completed_at # Null THEN task.completed_at[1] ELSE task.created_at[1]

\* db.cleanup_old_task_records(days): the rows older than the cutoff.
OldTasks(store, days, t) ==
    {k \in DOMAIN store : AgedFrom(store[k]) < t - days * 24 * 60}

Remove(store, ids) == [k \in DOMAIN store \ ids |-> store[k]]

\* db.reset_stale_tasks(timeout_minutes): the processing rows started before the cutoff.
StaleTasks(store, timeout_minutes, t) ==
    {k \in DOMAIN store :
        store[k].status = "processing" /\ store[k].started_at[1] < t - timeout_minutes}

db_reset_stale_tasks(store, timeout_minutes, t) ==
    [k \in DOMAIN store |->
        IF k \in StaleTasks(store, timeout_minutes, t)
        THEN [store[k] EXCEPT !.status = "pending", !.worker_id = Null, !.started_at = Null]
        ELSE store[k]]

\* days: int = Query(7), timeout_minutes: int = Query(60)
CLEANUP_DAYS_DEFAULT == 7
STALE_TIMEOUT_DEFAULT == 60

AskedDays == {0, CLEANUP_DAYS_DEFAULT}

AskedTimeouts == {0, STALE_TIMEOUT_DEFAULT}

cleanup_dependency_none(caller) == 200

\* current_user: User = Depends(require_permission(Permission.QUEUE_MANAGE))
cleanup_dependency(caller) == require_permission(caller, "QUEUE_MANAGE")

cleanup_old_tasks(caller, days) ==
    IF cleanup_dependency(caller) # 200
    THEN /\ resp' = Event("cleanup", caller, 0, <<days>>, cleanup_dependency(caller), <<>>, <<>>)
         /\ UNCHANGED <<tasks, seq, uploads, uuids, outfiles, cancelling, now, text, bucket, hostVars>>
    ELSE LET old == OldTasks(tasks, days, now) IN
         /\ tasks' = Remove(tasks, old)
         /\ uploads' = uploads \ {tasks[k].file_path[2] : k \in old}
         /\ outfiles' = {f \in outfiles :
                            \A k \in old : tasks[k].result_path = Null
                                           \/ ~IsPrefix(tasks[k].result_path[1], f)}
         /\ resp' = Event("cleanup", caller, 0, <<days>>, 200,
                          <<[deleted_count |-> Cardinality(old)]>>,
                          <<"cleanup_old_task_records">>)
         /\ UNCHANGED <<seq, uuids, cancelling, now, text, bucket, hostVars>>

CleanupOldTasks == \E caller \in Callers, days \in AskedDays : cleanup_old_tasks(caller, days)

reset_dependency_none(caller) == 200

\* current_user: User = Depends(require_permission(Permission.QUEUE_MANAGE))
reset_dependency(caller) == require_permission(caller, "QUEUE_MANAGE")

reset_stale_tasks(caller, timeout_minutes) ==
    IF reset_dependency(caller) # 200
    THEN /\ resp' = Event("reset_stale", caller, 0, <<timeout_minutes>>,
                          reset_dependency(caller), <<>>, <<>>)
         /\ UNCHANGED <<tasks, seq, uploads, uuids, outfiles, cancelling, now, text, bucket, hostVars>>
    ELSE /\ tasks' = db_reset_stale_tasks(tasks, timeout_minutes, now)
         /\ resp' = Event("reset_stale", caller, 0, <<timeout_minutes>>, 200,
                          <<[reset_count |-> Cardinality(StaleTasks(tasks, timeout_minutes, now))]>>,
                          <<"reset_stale_tasks">>)
         /\ UNCHANGED <<seq, uploads, uuids, outfiles, cancelling, now, text, bucket, hostVars>>

ResetStaleTasks ==
    \E caller \in Callers, timeout_minutes \in AskedTimeouts :
        reset_stale_tasks(caller, timeout_minutes)

\* A minute passes.
Tick ==
    /\ now < MaxTime
    /\ now' = now + 1
    /\ resp' = Event("tick", NoUser, 0, <<>>, 0, <<>>, <<>>)
    /\ UNCHANGED <<tasks, seq, uploads, uuids, outfiles, cancelling, text, bucket, hostVars>>

(***************************************************************************)
(* The stores the queue endpoints are run on: up to MaxRows rows, each     *)
(* taken through its life cycle by the task store's own operations at      *)
(* minute 0 or 1, with the files that life cycle leaves on disk.           *)
(***************************************************************************)
QueueRow(k, user_id, status, t) ==
    LET path == temp_file_path(k, "a.pdf")
        s0 == Insert(<<>>, k, create_task("a.pdf", path, "auto", [lang |-> "auto"], 0, user_id, t))
        s1 == claim_next(s0, k, SchedulerWorker, t)
    IN CASE status = "pending"    -> s0[k]
         [] status = "processing" -> s1[k]
         [] status = "completed"  -> complete(s1, k, ResultPath(k), t)[k]
         [] status = "failed"     -> fail(s1, k, "engine error", FALSE, t)[k]
         [] OTHER                 -> update_task_status(s0, k, "cancelled")[k]

RowKinds ==
    {<<"alice", "pending", 1>>, <<"alice", "processing", 0>>, <<"alice", "completed", 0>>,
     <<"alice", "processing", 1>>, <<"bob", "pending", 0>>, <<"bob", "completed", 1>>,
     <<"bob", "failed", 0>>, <<"bob", "cancelled", 0>>}

InitQueue ==
    \E n \in 0..MaxRows : \E kind \in [1..n -> RowKinds] :
        /\ tasks = [k \in 1..n |-> QueueRow(k, kind[k][1], kind[k][2], kind[k][3])]
        /\ seq = n
        /\ uuids = n
        /\ uploads = {temp_file_path(k, "a.pdf")[2] : k \in {j \in 1..n : kind[j][2] # "cancelled"}}
        /\ outfiles = {ResultPath(k) \o <<"result.md">> : k \in {j \in 1..n : kind[j][2] = "completed"}}
        /\ cancelling = <<>>
        /\ now = 1
        /\ text = <<>>
    /\ bucket = {}
    /\ HostIdle
    /\ resp = NoEvent

NextQueue ==
    \/ ListTasks
    \/ GetQueueStats
    \/ CleanupOldTasks
    \/ ResetStaleTasks
    \/ Tick

SpecQueue == InitQueue /\ [][NextQueue]_vars

(***************************************************************************)
(* Properties of the queue and admin endpoints, checked under SpecQueue.   *)
(***************************************************************************)
\* C9: the list a caller without TASK_VIEW_ALL receives holds only the caller's
\* own tasks, with or without a status filter; it is never longer than the
\* requested limit; with a status filter it holds only tasks in that status.
C9_ListScopedAndLimited ==
    (resp.op = "list" /\ resp.code = 200) =>
        LET rows == resp.body[1].tasks
            status == resp.req[1]
            limit == resp.req[2]
        IN /\ ~has_permission(resp.caller, "TASK_VIEW_ALL")
                 => \A i \in 1..Len(rows) : rows[i].user_id = resp.caller
           /\ Len(rows) <= limit
           /\ status # <<>> => \A i \in 1..Len(rows) : rows[i].status = status[1]

\* C9, the part the code keeps: the owner scope and the status filter hold for
\* every limit, every listed row is a row of the store, and the length bound
\* holds for every limit that is not negative.
C9_ListScopedLimitedIfNonNegative ==
    (resp.op = "list" /\ resp.code = 200) =>
        LET rows == resp.body[1].tasks
            status == resp.req[1]
            limit == resp.req[2]
        IN /\ ~has_permission(resp.caller, "TASK_VIEW_ALL")
                 => \A i \in 1..Len(rows) : rows[i].user_id = resp.caller
           /\ limit >= 0 => Len(rows) <= limit
           /\ status # <<>> => \A i \in 1..Len(rows) : rows[i].status = status[1]
           /\ \A i \in 1..Len(rows) :
                 /\ rows[i].task_id \in DOMAIN tasks
                 /\ rows[i] = RowDict(tasks, rows[i].task_id)

\* A request to one of the admin endpoints, and to the stats endpoint.
AdminRequest == resp'.op \in {"cleanup", "reset_stale"}

StatsRequest == resp'.op = "stats"

Holds(caller, p) == caller \in Users /\ has_permission(caller, p)

\* C10: cleanup and reset-stale change the task store (and the files) only for
\* a caller holding QUEUE_MANAGE, and stats are returned only to a caller
\* holding QUEUE_VIEW; any other caller is answered 401 or 403 with no body and
\* no task store operation is invoked.
C10_AdminNeedsPermission ==
    [][/\ AdminRequest =>
            IF Holds(resp'.caller, "QUEUE_MANAGE")
            THEN resp'.code = 200 /\ resp'.db # <<>>
            ELSE /\ resp'.code = IF resp'.caller \in Users THEN 403 ELSE 401
                 /\ resp'.body = <<>> /\ resp'.db = <<>>
                 /\ StoreUnchanged /\ outfiles' = outfiles
       /\ StatsRequest =>
            IF Holds(resp'.caller, "QUEUE_VIEW")
            THEN /\ resp'.code = 200
                 /\ resp'.body[1].stats = db_get_queue_stats(tasks)
            ELSE /\ resp'.code = IF resp'.caller \in Users THEN 403 ELSE 401
                 /\ resp'.body = <<>> /\ resp'.db = <<>>
                 /\ StoreUnchanged]_vars

\* C10 witness: a caller who may view the queue but not manage it was refused a
\* cleanup that would have deleted a row.
C10_Witness ==
    /\ resp.op = "cleanup" /\ resp.code = 403
    /\ Holds(resp.caller, "QUEUE_VIEW")
    /\ OldTasks(tasks, resp.req[1], now) # {}

(***************************************************************************)
(* GET /v1/files/output/{file_path:path}, the static file service.         *)
(*                                                                         *)
(* A path is the sequence of its segments; the string of a path, which the *)
(* handler's prefix check reads, is the sequence of its characters.  The   *)
(* tree holds no symbolic links, so resolve() only removes "." and "..".   *)
(***************************************************************************)
\* The characters of a segment.
Chars(seg) ==
    CASE seg = "app"        -> <<"a", "p", "p">>
      [] seg = "output"     -> <<"o", "u", "t", "p", "u", "t">>
      [] seg = "output_old" -> <<"o", "u", "t", "p", "u", "t", "_", "o", "l", "d">>
      [] seg = "etc"        -> <<"e", "t", "c">>
      [] seg = "passwd"     -> <<"p", "a", "s", "s", "w", "d">>
      [] seg = "1"          -> <<"1">>
      [] seg = "images"     -> <<"i", "m", "a", "g", "e", "s">>
      [] seg = "x.png"      -> <<"x", ".", "p", "n", "g">>
      [] seg = "result.md"  -> <<"r", "e", "s", "u", "l", "t", ".", "m", "d">>
      [] seg = "a b.png"    -> <<"a", " ", "b", ".", "p", "n", "g">>
      [] seg = "a%20b.png"  -> <<"a", "%", "2", "0", "b", ".", "p", "n", "g">>
      [] seg = "gone.png"   -> <<"g", "o", "n", "e", ".", "p", "n", "g">>
      [] seg = "/"          -> <<"/">>
      [] seg = "api"        -> <<"a", "p", "i">>
      [] seg = "v1"         -> <<"v", "1">>
      [] seg = "files"      -> <<"f", "i", "l", "e", "s">>
      [] seg = "minio"      -> <<"m", "i", "n", "i", "o">>
      [] seg = "tianshu"    -> <<"t", "i", "a", "n", "s", "h", "u">>
      [] seg = "result_minio.md" -> <<"r", "e", "s", "u", "l", "t", "_", "m", "i", "n", "i", "o",
                                      ".", "m", "d">>
      [] seg = "page_1.md"  -> <<"p", "a", "g", "e", "_", "1", ".", "m", "d">>
      [] seg = "page_1"     -> <<"p", "a", "g", "e", "_", "1">>
      [] seg = "content.json" -> <<"c", "o", "n", "t", "e", "n", "t", ".", "j", "s", "o", "n">>
      [] seg = "doc.md"     -> <<"d", "o", "c", ".", "m", "d">>
      [] seg = "doc"        -> <<"d", "o", "c">>
      [] seg = "auto"       -> <<"a", "u", "t", "o">>
      [] OTHER              -> <<"?">>

\* str(path) of an absolute path.
RECURSIVE Str(_)
Str(path) ==
    IF path = <<>> THEN <<"/">>
    ELSE IF Len(path) = 1 THEN <<"/">> \o Chars(path[1])
    ELSE Str(SubSeq(path, 1, Len(path) - 1)) \o <<"/">> \o Chars(path[Len(path)])

\* unquote(file_path), segment by segment: an escaped dot pair decodes to
\* "..", an escaped space to a space.
UnquoteSeg(seg) ==
    CASE seg = "%2E%2E"    -> ".."
      [] seg = "a%20b.png" -> "a b.png"
      [] OTHER             -> seg

unquote(path) == [i \in 1..Len(path) |-> UnquoteSeg(path[i])]

\* OUTPUT_DIR / decoded_path: an absolute right operand (its first segment is
\* empty, the path began with "/") replaces the left one.
Join(base, path) ==
    IF path # <<>> /\ path[1] = "" THEN Tail(path) ELSE base \o path

\* Path.resolve()
RECURSIVE ResolveFrom(_, _)
ResolveFrom(done, rest) ==
    IF rest = <<>> THEN done
    ELSE IF rest[1] = "." THEN ResolveFrom(done, Tail(rest))
    ELSE IF rest[1] = ".."
         THEN ResolveFrom(IF done = <<>> THEN done ELSE SubSeq(done, 1, Len(done) - 1), Tail(rest))
    ELSE ResolveFrom(Append(done, rest[1]), Tail(rest))

resolve(path) == ResolveFrom(<<>>, path)

\* str(full_path).startswith(str(OUTPUT_DIR.resolve()))
inside_output_dir(full_path) == IsPrefix(Str(resolve(OUTPUT_DIR)), Str(full_path))

\* Path.is_file() and Path.exists(): a directory exists when a file lies below
\* it; OUTPUT_DIR is created at start-up.
is_file(files, path) == path \in files

is_dir(files, path) ==
    \/ IsPrefix(path, OUTPUT_DIR)
    \/ \E f \in files : IsPrefix(path, f) /\ path # f

exists(files, path) == is_file(files, path) \/ is_dir(files, path)

serve_output_file(file_path) ==
    /\ resp' =
         LET decoded_path == unquote(file_path)
             full_path == resolve(Join(OUTPUT_DIR, decoded_path))
         IN IF ~inside_output_dir(full_path)
            THEN Event("serve", NoUser, 0, <<file_path>>, 403, <<>>, <<>>)
            ELSE IF ~exists(outfiles, full_path)
            THEN Event("serve", NoUser, 0, <<file_path>>, 404, <<>>, <<>>)
            ELSE IF ~is_file(outfiles, full_path)
            THEN Event("serve", NoUser, 0, <<file_path>>, 404, <<>>, <<>>)
            ELSE Event("serve", NoUser, 0, <<file_path>>, 200,
                       <<[path |-> full_path, filename |-> full_path[Len(full_path)]]>>, <<>>)
    /\ UNCHANGED <<tasks, seq, uploads, uuids, outfiles, cancelling, now, text, bucket, hostVars>>

\* The files that may be on disk: a task's results below OUTPUT_DIR, a file of
\* a directory beside it whose name begins with OUTPUT_DIR's, and a file
\* elsewhere.
DiskFiles ==
    {<<"app", "output", "1", "result.md">>,
     <<"app", "output", "1", "images", "x.png">>,
     <<"app", "output_old", "1", "result.md">>,
     <<"etc", "passwd">>}

\* The paths clients ask for.
AskedPaths ==
    {<<"1", "result.md">>,
     <<"1", "images", "x.png">>,
     <<"1", ".", "images", "..", "result.md">>,
     <<"1">>,
     <<>>,
     <<"..">>,
     <<"..", "output", "1", "result.md">>,
     <<"..", "output_old", "1", "result.md">>,
     <<"%2E%2E", "output_old", "1", "result.md">>,
     <<"1", "..", "..", "output_old", "1", "result.md">>,
     <<"..", "..", "etc", "passwd">>,
     <<"%2E%2E", "%2E%2E", "etc", "passwd">>,
     <<"", "etc", "passwd">>}

ServeOutputFile == \E file_path \in AskedPaths : serve_output_file(file_path)

InitFiles ==
    /\ tasks = <<>>
    /\ seq = 0
    /\ uploads = {}
    /\ uuids = 0
    /\ outfiles \in SUBSET DiskFiles
    /\ cancelling = <<>>
    /\ now = 0
    /\ text = <<>>
    /\ bucket = {}
    /\ HostIdle
    /\ resp = NoEvent

NextFiles == ServeOutputFile

SpecFiles == InitFiles /\ [][NextFiles]_vars

(***************************************************************************)
(* Properties of the static file service, checked under SpecFiles.         *)
(***************************************************************************)
\* Where a requested path resolves to.
Target(file_path) == resolve(Join(OUTPUT_DIR, unquote(file_path)))

\* C1: a request whose target resolves to neither the output root nor a path
\* beneath it (a sibling directory of the root included) is answered 403 and
\* no file is served.
C1_EscapeIs403 ==
    (resp.op = "serve" /\ ~IsPrefix(resolve(OUTPUT_DIR), Target(resp.req[1])))
        => (resp.code = 403 /\ resp.body = <<>>)

\* C1, the part the code keeps: a request whose target's path string does not
\* begin with the output root's path string is answered 403, and every file
\* served is a file on disk whose path string begins with the root's.
C1_StringPrefixCheck ==
    resp.op = "serve" =>
        /\ ~IsPrefix(Str(OUTPUT_DIR), Str(Target(resp.req[1])))
              => (resp.code = 403 /\ resp.body = <<>>)
        /\ resp.code = 200
              => /\ resp.body[1].path = Target(resp.req[1])
                 /\ resp.body[1].path \in outfiles
                 /\ IsPrefix(Str(OUTPUT_DIR), Str(resp.body[1].path))

(***************************************************************************)
(* process_markdown_images: the rewriting of the image references of a     *)
(* Markdown document.                                                      *)
(*                                                                         *)
(* A document is the sequence of the pieces the two patterns of the        *)
(* function split it into: running text, Markdown references ![alt](path)  *)
(* and HTML references <img{sp}{before}src="path"{after}>.  A path is a    *)
(* string, the sequence of its characters.                                 *)
(***************************************************************************)
\* F applied to the value of v, which is computed once.
Let(v, F(_)) == CHOOSE y \in {F(x) : x \in {v}} : TRUE

Text(s) == [kind |-> "text", s |-> s]

MdImage(alt, path) == [kind |-> "md", alt |-> alt, path |-> path]

HtmlImage(sp, before, path, after) ==
    [kind |-> "html", sp |-> sp, before |-> before, path |-> path, after |-> after]

\* urllib.parse.quote(s, safe="/") on the characters of the model: a space and
\* a percent sign are escaped, the others are kept.
QuoteChar(c) ==
    CASE c = " " -> <<"%", "2", "0">>
      [] c = "%" -> <<"%", "2", "5">>
      [] OTHER   -> <<c>>

RECURSIVE quote(_)
quote(s) == IF s = <<>> THEN <<>> ELSE QuoteChar(Head(s)) \o quote(Tail(s))

\* str.lstrip("/")
RECURSIVE LStrip(_)
LStrip(s) == IF s # <<>> /\ Head(s) = "/" THEN LStrip(Tail(s)) ELSE s

\* The last position of character c in s, 0 when there is none.
LastIndexOf(s, c) ==
    LET I == {i \in 1..Len(s) : s[i] = c}
    IN IF I = {} THEN 0 ELSE CHOOSE i \in I : \A j \in I : j <= i

\* Path(image_path).name
PathName(s) == SubSeq(s, LastIndexOf(s, "/") + 1, Len(s))

\* Path.suffix
PathSuffix(name) ==
    LET i == LastIndexOf(name, ".")
    IN IF i <= 1 \/ i = Len(name) THEN <<>> ELSE SubSeq(name, i, Len(name))

image_exists_any(files, image_dir, image_filename) == TRUE

\* (image_dir / image_filename).exists()
image_exists(files, image_dir, image_filename) ==
    \E f \in files :
        /\ Len(f) = Len(image_dir) + 1
        /\ IsPrefix(image_dir, f)
        /\ Chars(f[Len(f)]) = image_filename

\* MINIO_CONFIG
MINIO_CONFIG == [endpoint |-> Chars("minio"), bucket_name |-> Chars("tianshu"), secure |-> TRUE]

\* str(uuid.uuid4()), for the n-th value drawn.
Digit(n) ==
    CASE n = 0 -> "0" [] n = 1 -> "1" [] n = 2 -> "2" [] n = 3 -> "3" [] n = 4 -> "4"
      [] n = 5 -> "5" [] n = 6 -> "6" [] n = 7 -> "7" [] n = 8 -> "8" [] OTHER -> "9"

uuid4(n) == <<"u", Digit(n)>>

\* object_name = f"images/{new_filename}"
object_name(new_filename) == Chars("images") \o <<"/">> \o new_filename

\* f"{scheme}://{minio_endpoint}/{bucket_name}/{object_name}"
HTTPS == <<"h", "t", "t", "p", "s", ":", "/", "/">>

HTTP == <<"h", "t", "t", "p", ":", "/", "/">>

minio_url(new_filename) ==
    (IF MINIO_CONFIG.secure THEN HTTPS ELSE HTTP)
        \o MINIO_CONFIG.endpoint \o <<"/">> \o MINIO_CONFIG.bucket_name
        \o <<"/">> \o object_name(new_filename)

\* "/api/v1/files/output"
API_FILES_OUTPUT == Str(<<"api", "v1", "files", "output">>)

static_url_unquoted(result_path, image_filename) ==
    API_FILES_OUTPUT \o Str(Tail(Tail(result_path))) \o Str(<<"images">>) \o <<"/">> \o image_filename

\* The URL of the local static file service for an image of a result.
static_url(result_path, image_filename) ==
    LET output_dir_str == Str(OUTPUT_DIR)
        result_path_str == Str(result_path)
    IN IF IsPrefix(output_dir_str, result_path_str)
       THEN LET relative_path ==
                    LStrip(SubSeq(result_path_str, Len(output_dir_str) + 1, Len(result_path_str)))
            IN API_FILES_OUTPUT \o <<"/">> \o quote(relative_path)
                   \o Str(<<"images">>) \o <<"/">> \o quote(image_filename)
       ELSE API_FILES_OUTPUT \o Str(<<"images">>) \o <<"/">> \o quote(image_filename)

\* What a call of process_markdown_images runs in: the files on disk, the
\* image directory, the row's result_path, the upload_images flag and whether
\* the object store accepts uploads.
Env(files, image_dir, result_path, upload_images, minio_up) ==
    [files |-> files, image_dir |-> image_dir, result_path |-> result_path,
     upload_images |-> upload_images, minio_up |-> minio_up]

upload_always(env) == TRUE

wants_upload(env) == env.upload_images

upload_failure_unchanged(env, image_filename) == <<>>

upload_failure_url(env, image_filename) == <<static_url(env.result_path, image_filename)>>

\* process_image_path: the new URL of a reference (none when the image is not
\* in image_dir), whether a uuid was drawn and the objects put in the bucket.
\* n uuids were drawn before.
process_image_path(image_path, env, n) ==
    LET image_filename == PathName(image_path) IN
    IF ~image_exists(env.files, env.image_dir, image_filename)
    THEN [url |-> <<>>, drawn |-> 0, objects |-> {}]
    ELSE IF wants_upload(env)
    THEN LET new_filename == uuid4(n + 1) \o PathSuffix(image_filename) IN
         IF env.minio_up
         THEN [url |-> <<minio_url(new_filename)>>, drawn |-> 1,
               objects |-> {object_name(new_filename)}]
         ELSE [url |-> upload_failure_url(env, image_filename), drawn |-> 1, objects |-> {}]
    ELSE [url |-> <<static_url(env.result_path, image_filename)>>, drawn |-> 0, objects |-> {}]

\* replace_md_image / replace_html_image: the reference with its new URL, or
\* the reference as it was.
replace_md_image(piece, url) ==
    IF url = <<>> THEN piece ELSE MdImage(piece.alt, url[1])

replace_html_image(piece, url) ==
    IF url = <<>> THEN piece ELSE HtmlImage(" ", piece.before, url[1], piece.after)

\* One match of a pattern: the reference replaced, the uuids drawn and the
\* objects uploaded added to those of the matches before it.
sub_image(piece, env, acc) ==
    Let(process_image_path(piece.path, env, acc.n),
        LAMBDA r :
            [out |-> Append(acc.out,
                            IF piece.kind = "md" THEN replace_md_image(piece, r.url)
                            ELSE replace_html_image(piece, r.url)),
             n |-> acc.n + r.drawn,
             objects |-> acc.objects \cup r.objects])

\* re.sub(pattern, replace, content) for the references of one kind, from
\* left to right.
RECURSIVE sub_images(_, _, _, _)
sub_images(kind, todo, env, acc) ==
    IF todo = <<>> THEN acc
    ELSE Let(IF Head(todo).kind # kind
             THEN [acc EXCEPT !.out = Append(@, Head(todo))]
             ELSE sub_image(Head(todo), env, acc),
             LAMBDA next : Let(Tail(todo), LAMBDA rest : sub_images(kind, rest, env, next)))

\* process_markdown_images: the new content (out), the uuids drawn in all (n)
\* and the objects put in the bucket.
process_markdown_images(md_content, env, n) ==
    Let(sub_images("md", md_content, env, [out |-> <<>>, n |-> n, objects |-> {}]),
        LAMBDA md :
            sub_images("html", md.out, env, [out |-> <<>>, n |-> md.n, objects |-> md.objects]))

(***************************************************************************)
(* GET /api/v1/tasks/{task_id} on a task with results: the data of the     *)
(* response.  The result directory of a task holds result.md, the cache    *)
(* result_minio.md, content.json and images/.                              *)
(***************************************************************************)
MaxUploads == 2

Parent(path) == SubSeq(path, 1, Len(path) - 1)

\* result_dir.rglob("*.md"): the files under result_dir whose name ends in .md
md_files(files, result_dir) ==
    {f \in files : IsPrefix(result_dir, f) /\ PathSuffix(Chars(f[Len(f)])) = <<".", "m", "d">>}

\* The orders in which rglob may list these files (the order of the directory
\* entries is the file system's).
rglob_orders(files, result_dir) ==
    LET mds == md_files(files, result_dir)
    IN {o \in [1..Cardinality(mds) -> mds] : \A f \in mds : \E i \in DOMAIN o : o[i] = f}

\* The files of result_dir.rglob("*.json") the handler keeps.
json_files(files, result_dir) ==
    {f \in files : IsPrefix(result_dir, f) /\ f[Len(f)] \in {"content.json", "result.json"}}

select_first_md_file(listing) == listing[1]

\* The main Markdown file of a listing: the first file named result.md when
\* there is one, else the first file.
select_md_file(listing) ==
    LET I == {i \in DOMAIN listing : listing[i][Len(listing[i])] = "result.md"}
    IN IF I # {} THEN listing[CHOOSE i \in I : \A j \in I : i <= j] ELSE listing[1]

Formats == {"markdown", "json", "both"}

LOST_MESSAGE == "Task completed but result files have been cleaned up (older than retention period)"

NO_JSON_MESSAGE == "JSON format not available for this backend"

cache_never_hit(files, cached_md_file, upload_images) == FALSE

\* if upload_images and cached_md_file and cached_md_file.exists()
cache_hit(files, cached_md_file, upload_images) ==
    upload_images /\ is_file(files, cached_md_file)

cache_written_if_uploaded(upload_images, objects) == upload_images /\ objects # {}

\* if upload_images and cached_md_file: the cache is written
cache_written(upload_images, objects) == upload_images

\* What can raise in the handler besides the object store and the write of
\* the cache: the read of the Markdown file, and re.sub in
\* process_markdown_images.
READ_ERROR == "read"

REWRITE_ERROR == "rewrite"

\* process_markdown_images when re.sub raises: except Exception: return
\* md_content (the error is taken at the first reference, nothing uploaded).
rewrite_failed(md_content, n) == [out |-> md_content, n |-> n, objects |-> {}]

\* The Markdown fields of data, with what reading them did to the disk and to
\* the bucket.  files and texts are the disk, n the uuids drawn so far,
\* listing the Markdown files in the order rglob gave them, faults what
\* raises.
markdown_data(task, files, texts, n, upload_images, minio_up, disk_ok, listing, faults) ==
    LET result_dir == task.result_path[1]
        md_file == select_md_file(listing)
        image_dir == Parent(md_file) \o <<"images">>
        cached_md_file == Parent(md_file) \o <<"result_minio.md">>
    IN IF cache_hit(files, cached_md_file, upload_images)
       THEN [data |-> ("markdown_file" :> "result_minio.md") @@ ("content" :> texts[cached_md_file])
                          @@ ("images_uploaded" :> TRUE) @@ ("from_cache" :> TRUE),
             files |-> files, texts |-> texts, n |-> n, objects |-> {}]
       ELSE LET has_images == is_dir(files, image_dir) IN
            Let(IF has_images /\ REWRITE_ERROR \in faults
                THEN rewrite_failed(texts[md_file], n)
                ELSE IF has_images
                THEN process_markdown_images(texts[md_file],
                         Env(files, image_dir, result_dir, upload_images, minio_up), n)
                ELSE [out |-> texts[md_file], n |-> n, objects |-> {}],
                LAMBDA r :
                    LET saved == has_images /\ cache_written(upload_images, r.objects) /\ disk_ok
                    IN [data |-> ("markdown_file" :> md_file[Len(md_file)])
                                    @@ ("content" :> r.out)
                                    @@ ("images_uploaded" :> upload_images)
                                    @@ ("has_images" :> IF upload_images THEN <<>>
                                                        ELSE <<has_images>>)
                                    @@ ("from_cache" :> FALSE),
                        files |-> IF saved THEN files \cup {cached_md_file} ELSE files,
                        texts |-> IF saved THEN (cached_md_file :> r.out) @@ texts ELSE texts,
                        n |-> r.n, objects |-> r.objects])

\* The JSON fields of data.
json_data(files, result_dir, format) ==
    LET jsons == json_files(files, result_dir) IN
    IF format \in {"json", "both"} /\ jsons # {}
    THEN LET json_file == CHOOSE f \in jsons : TRUE
         IN ("json_file" :> json_file[Len(json_file)]) @@ ("json_content" :> <<json_file>>)
    ELSE IF format = "json" /\ jsons = {}
    THEN ("message" :> NO_JSON_MESSAGE)
    ELSE <<>>

\* The response for a completed task whose result_path is empty.
lost_results(task, files) == ("data" :> <<>>) @@ ("message" :> LOST_MESSAGE)

read_error_ignored(same) == same

\* except Exception as e: response["data"] = None
read_error(same) == [same EXCEPT !.extra = ("data" :> <<>>)]

\* What the handler adds to the status fields (the keys data and message, a
\* data of <<>> being null), with the disk and the bucket it leaves.
load_content(task, files, texts, n, upload_images, format, minio_up, disk_ok, listing, faults) ==
    LET same == [extra |-> <<>>, files |-> files, texts |-> texts, n |-> n, objects |-> {}] IN
    IF task.status # "completed" THEN same
    ELSE IF task.result_path = Null THEN [same EXCEPT !.extra = lost_results(task, files)]
    ELSE LET result_dir == task.result_path[1] IN
         IF ~exists(files, result_dir) THEN same
         ELSE IF md_files(files, result_dir) = {} THEN same
         ELSE IF format \in {"markdown", "both"} /\ READ_ERROR \in faults THEN read_error(same)
         ELSE Let(IF format \in {"markdown", "both"}
                  THEN markdown_data(task, files, texts, n, upload_images, minio_up, disk_ok,
                                     listing, faults)
                  ELSE [data |-> <<>>, files |-> files, texts |-> texts, n |-> n,
                        objects |-> {}],
                  LAMBDA md :
                      [extra |-> ("data" :>
                                    <<("json_available" :> (json_files(files, result_dir) # {}))
                                          @@ md.data @@ json_data(files, result_dir, format)>>),
                       files |-> md.files, texts |-> md.texts, n |-> md.n,
                       objects |-> md.objects])

\* The whole handler: the status fields of get_task_status, then the content.
get_task_data(caller, task_id, upload_images, format, minio_up, disk_ok, listing, faults) ==
    LET req == <<upload_images, format, minio_up, disk_ok, listing, faults>>
        task == get_task(tasks, task_id)
    IN
    IF get_current_active_user(caller) # 200
    THEN /\ resp' = Event("get_data", caller, task_id, req, get_current_active_user(caller), <<>>, <<>>)
         /\ UNCHANGED <<tasks, seq, uploads, uuids, outfiles, cancelling, now, text, bucket, hostVars>>
    ELSE IF task = <<>>
    THEN /\ resp' = Event("get_data", caller, task_id, req, 404, <<>>, <<"get_task">>)
         /\ UNCHANGED <<tasks, seq, uploads, uuids, outfiles, cancelling, now, text, bucket, hostVars>>
    ELSE IF ~view_allowed(task[1], caller)
    THEN /\ resp' = Event("get_data", caller, task_id, req, 403, <<>>, <<"get_task">>)
         /\ UNCHANGED <<tasks, seq, uploads, uuids, outfiles, cancelling, now, text, bucket, hostVars>>
    ELSE \E r \in {load_content(task[1], outfiles, text, uuids, upload_images, format,
                                minio_up, disk_ok, listing, faults)} :
            /\ r.n <= MaxUploads
            /\ resp' = Event("get_data", caller, task_id, req, 200,
                             <<status_response(task_id, task[1]), r.extra>>, <<"get_task">>)
            /\ outfiles' = r.files
            /\ text' = r.texts
            /\ uuids' = r.n
            /\ bucket' = bucket \cup r.objects
            /\ UNCHANGED <<tasks, seq, uploads, cancelling, now, hostVars>>

\* The requests of the model: alice asks for her task 1 in every way (the
\* object store and the disk can fail only on a request that uses them); bob,
\* a caller without a token and a request for a task that does not exist ask
\* with the defaults.
IOs(upload_images) == IF upload_images THEN BOOLEAN \X BOOLEAN ELSE {<<TRUE, TRUE>>}

GetTaskData ==
    \/ \E upload_images \in BOOLEAN, format \in Formats :
       \E io \in IOs(upload_images) :
       \E listing \in rglob_orders(outfiles, ResultPath(1)) :
           get_task_data("alice", 1, upload_images, format, io[1], io[2], listing, {})
    \/ \E who \in {<<"bob", 1>>, <<NoUser, 1>>, <<"alice", 2>>} :
           get_task_data(who[1], who[2], FALSE, "markdown", TRUE, TRUE, <<>>, {})

\* alice's request for her task 1 when the read of the Markdown file or the
\* rewriting raises.
GetTaskDataFaults ==
    \E upload_images \in BOOLEAN, format \in Formats, fault \in {READ_ERROR, REWRITE_ERROR} :
    \E io \in IOs(upload_images) :
    \E listing \in rglob_orders(outfiles, ResultPath(1)) :
        get_task_data("alice", 1, upload_images, format, io[1], io[2], listing, {fault})

\* A direct call of process_markdown_images on the content of a Markdown file
\* of the result directory or on the content the last call returned.
ProcessMarkdownImages ==
    \E upload_images \in BOOLEAN :
    \E io \in IOs(upload_images) :
    \E md_content \in {text[f] : f \in DOMAIN text}
                        \cup (IF resp.op = "rewrite" THEN {resp.body[1]} ELSE {}) :
        \E r \in {process_markdown_images(md_content,
                       Env(outfiles, ResultPath(1) \o <<"images">>, ResultPath(1),
                           upload_images, io[1]), uuids)} :
           /\ io[2]
           /\ r.n <= MaxUploads
           /\ resp' = Event("rewrite", NoUser, 0, <<md_content, upload_images, io[1]>>, 0,
                            <<r.out>>, <<>>)
           /\ uuids' = r.n
           /\ bucket' = bucket \cup r.objects
           /\ UNCHANGED <<tasks, seq, uploads, outfiles, cancelling, now, text, hostVars>>

\* The documents the worker may have written.
ImagePath(name) == Chars("images") \o <<"/">> \o Chars(name)

Documents ==
    {<<Text("A figure."), MdImage("fig", ImagePath("x.png")),
       HtmlImage("  ", "", ImagePath("x.png"), " alt=\"fig\" width=\"50\"")>>,
     <<MdImage("two words", ImagePath("a b.png"))>>,
     <<MdImage("", Chars("gone.png")), HtmlImage(" ", "class=\"c\" ", ImagePath("gone.png"), "")>>,
     <<Text("No figure.")>>}

\* The main document of a result that has pages.
Documents1 == <<Text("A figure."), MdImage("fig", ImagePath("x.png"))>>

\* The images the worker may have left in images/.
ImageSets == {{}, {"x.png"}, {"x.png", "a b.png"}, {"a b.png", "a%20b.png"}}

\* The states the results of task 1 (alice's) may be in: still processing;
\* completed with result_path cleared by the retention clean-up; completed
\* with any of result.md, content.json and images on disk (none of them: the
\* result directory is gone).
InitResults ==
    /\ seq = 1
    /\ uploads = {}
    /\ uuids = 0
    /\ cancelling = <<>>
    /\ now = 1
    /\ bucket = {}
    /\ HostIdle
    /\ resp = NoEvent
    /\ \/ /\ tasks = [k \in {1} |-> QueueRow(1, "alice", "processing", 0)]
          /\ outfiles = {}
          /\ text = <<>>
       \/ /\ tasks = [k \in {1} |-> [QueueRow(1, "alice", "completed", 0) EXCEPT !.result_path = Null]]
          /\ outfiles = {}
          /\ text = <<>>
       \/ /\ tasks = [k \in {1} |-> QueueRow(1, "alice", "completed", 0)]
          /\ \E md \in SUBSET {"result.md"}, json \in SUBSET {"content.json"},
                images \in ImageSets, doc \in Documents :
                /\ outfiles = {ResultPath(1) \o <<f>> : f \in md \cup json}
                                  \cup {ResultPath(1) \o <<"images", i>> : i \in images}
                /\ text = IF md = {} THEN <<>> ELSE (ResultPath(1) \o <<"result.md">>) :> doc

NextResults ==
    \/ GetTaskData
    \/ ProcessMarkdownImages

SpecResults == InitResults /\ [][NextResults]_vars

(***************************************************************************)
(* The status endpoint on a result directory that holds several Markdown   *)
(* files: result.md, the cache result_minio.md an earlier request left     *)
(* beside it, and the Markdown of a page under page_1/.                     *)
(***************************************************************************)
\* The Markdown of page 1, kept as page_1/page_1.md or page_1/result.md.
PageDocument == <<Text("Page 1.")>>

\* The content of a cache: the main document with its image in the bucket.
CachedDocument ==
    <<Text("A figure."), MdImage("fig", minio_url(uuid4(0) \o <<".", "p", "n", "g">>))>>

MarkdownFiles ==
    {<<"result.md">>, <<"result_minio.md">>, <<"page_1", "page_1.md">>, <<"page_1", "result.md">>}

MarkdownText(f) ==
    IF Len(f) = 2 THEN PageDocument
    ELSE IF f = <<"result.md">> THEN Documents1
    ELSE CachedDocument

\* Task 1 completed, with any of these Markdown files on disk and no images
\* directory.
InitMarkdown ==
    /\ seq = 1
    /\ uploads = {}
    /\ uuids = 0
    /\ cancelling = <<>>
    /\ now = 1
    /\ bucket = {}
    /\ HostIdle
    /\ resp = NoEvent
    /\ tasks = [k \in {1} |-> QueueRow(1, "alice", "completed", 0)]
    /\ \E mds \in SUBSET MarkdownFiles :
          /\ outfiles = {ResultPath(1) \o f : f \in mds}
          /\ text = [f \in {ResultPath(1) \o m : m \in mds}
                       |-> MarkdownText(SubSeq(f, Len(ResultPath(1)) + 1, Len(f)))]

NextMarkdown == GetTaskData

SpecMarkdown == InitMarkdown /\ [][NextMarkdown]_vars

(***************************************************************************)
(* Properties of the results of a task and of the rewriting, checked under *)
(* SpecResults.                                                            *)
(***************************************************************************)
\* A step that answers alice's GET for her task 1 with 200.
GetStep ==
    /\ resp'.op = "get_data" /\ resp'.code = 200
    /\ resp'.task_id \in DOMAIN tasks

\* The parameters of the request of an event.
UploadImages(e) == e.req[1]

Format(e) == e.req[2]

\* The keys of the data of a response (none when data is absent or null) and
\* the value of one.
DataKeys(e) ==
    IF "data" \in DOMAIN e.body[2] /\ e.body[2]["data"] # <<>>
    THEN DOMAIN e.body[2]["data"][1]
    ELSE {}

Data(e, key) == e.body[2]["data"][1][key]

\* The listing of the request of an event, and the cache file beside the
\* Markdown file the handler selects from it.
Listing(e) == e.req[5]

CacheFile(e) == Parent(select_md_file(Listing(e))) \o <<"result_minio.md">>

\* The task has results on disk with a Markdown file among them.
HasMarkdown(files, task) ==
    /\ task.status = "completed"
    /\ task.result_path # Null
    /\ md_files(files, task.result_path[1]) # {}

DiskUnchanged == outfiles' = outfiles /\ text' = text /\ uploads' = uploads

NoUpload == bucket' = bucket /\ uuids' = uuids

\* C11: a GET with upload_images=true that selects Markdown (format markdown
\* or both) on a completed task with result_minio.md beside the selected
\* Markdown file returns the content of that file, from_cache true, and
\* uploads nothing and writes no file.
C11_CacheHit ==
    [][(/\ GetStep
        /\ UploadImages(resp') /\ Format(resp') \in {"markdown", "both"}
        /\ HasMarkdown(outfiles, tasks[resp'.task_id])
        /\ CacheFile(resp') \in outfiles)
       => /\ {"content", "from_cache", "markdown_file"} \subseteq DataKeys(resp')
          /\ Data(resp', "content") = text[CacheFile(resp')]
          /\ Data(resp', "from_cache") = TRUE
          /\ Data(resp', "markdown_file") = "result_minio.md"
          /\ NoUpload
          /\ DiskUnchanged]_vars

\* C11 witness: a response served from a cache whose content names an object
\* of the bucket, while the object store is down.
C11_Witness ==
    /\ resp.op = "get_data" /\ resp.code = 200
    /\ "from_cache" \in DataKeys(resp) /\ Data(resp, "from_cache") = TRUE
    /\ resp.req[3] = FALSE
    /\ bucket # {}

\* The references of a document that point into the object store.
IsMinioUrl(path) == IsPrefix(HTTPS \o MINIO_CONFIG.endpoint, path)

\* C12: a GET writes result_minio.md only when upload_images is true and the
\* request put at least one image in the bucket.
C12_CacheOnlyAfterUpload ==
    [][(GetStep /\ (outfiles' # outfiles \/ text' # text))
       => /\ UploadImages(resp')
          /\ bucket' # bucket]_vars

\* The Markdown a GET selects for a task references an image of images/.
IsReference(piece) == piece.kind \in {"md", "html"}

ReferencesImages(files, e) ==
    LET md_file == select_md_file(Listing(e)) IN
    \E i \in DOMAIN text[md_file] :
        /\ IsReference(text[md_file][i])
        /\ image_exists(files, Parent(md_file) \o <<"images">>, PathName(text[md_file][i].path))

\* No step removes a file or changes the content of a Markdown file.
FilesKept ==
    /\ outfiles \subseteq outfiles'
    /\ \A f \in DOMAIN text : f \in DOMAIN text' /\ text'[f] = text[f]

\* A GET with upload_images=true that selects the Markdown of a completed
\* task whose Markdown references existing images.
UploadingGet ==
    /\ GetStep
    /\ UploadImages(resp') /\ Format(resp') \in {"markdown", "both"}
    /\ HasMarkdown(outfiles, tasks[resp'.task_id])
    /\ ReferencesImages(outfiles, resp')

\* Such a GET leaves a cache that holds the content it returned; when it finds
\* a cache it returns it, from_cache true, and uploads nothing.
CacheServes ==
    LET cache == CacheFile(resp') IN
    /\ cache \in outfiles'
    /\ text'[cache] = Data(resp', "content")
    /\ cache \in outfiles => (Data(resp', "from_cache") = TRUE /\ NoUpload)

C14_NoUploadNoEffect ==
    [][(\/ (resp'.op = "get_data" /\ ~UploadImages(resp'))
        \/ (resp'.op = "rewrite" /\ ~resp'.req[2]))
       => (DiskUnchanged /\ NoUpload /\ tasks' = tasks)]_vars

\* C14 witness: a GET with upload_images=false returned rewritten content.
C14_Witness ==
    /\ resp.op = "get_data" /\ resp.code = 200 /\ ~UploadImages(resp)
    /\ "content" \in DataKeys(resp)
    /\ Data(resp, "has_images") = <<TRUE>>
    /\ \E i \in DOMAIN Data(resp, "content") :
          /\ IsReference(Data(resp, "content")[i])
          /\ IsPrefix(API_FILES_OUTPUT, Data(resp, "content")[i].path)

\* A step that calls process_markdown_images directly: resp'.req is the
\* content given, upload_images and whether the object store accepts uploads;
\* resp'.body[1] is the content returned.
RewriteStep == resp'.op = "rewrite"

ImageDir == ResultPath(1) \o <<"images">>

\* The reference names an image that exists in image_dir: what follows the
\* last "/" of its path is the name of a file of that directory.
Exists(piece) ==
    \E f \in outfiles :
        /\ Parent(f) = ImageDir
        /\ \E k \in 0..Len(piece.path) :
              /\ k = 0 \/ piece.path[k] = "/"
              /\ \A j \in (k + 1)..Len(piece.path) : piece.path[j] # "/"
              /\ Chars(f[Len(f)]) = SubSeq(piece.path, k + 1, Len(piece.path))

\* The URL of the local file service for the image a reference names, each
\* character of the name that is not URL-safe escaped.
LocalUrl(piece) ==
    Chars("/") \o Chars("api") \o Chars("/") \o Chars("v1") \o Chars("/") \o Chars("files")
        \o Chars("/") \o Chars("output") \o Chars("/") \o Chars("1") \o Chars("/")
        \o Chars("images") \o Chars("/") \o quote(PathName(piece.path))

\* C15: a reference, Markdown or HTML, whose basename does not exist in
\* image_dir is returned exactly as it was, for both values of upload_images,
\* and nothing is uploaded for it: the objects put in the bucket are at most
\* as many as the references whose image exists.
C15_MissingImageUnchanged ==
    [][RewriteStep =>
          LET in == resp'.req[1]
              out == resp'.body[1]
          IN /\ Len(out) = Len(in)
             /\ \A i \in DOMAIN in :
                   (IsReference(in[i]) /\ ~Exists(in[i])) => out[i] = in[i]
             /\ Cardinality(bucket' \ bucket)
                   <= Cardinality({i \in DOMAIN in : IsReference(in[i]) /\ Exists(in[i])})
             /\ (\A i \in DOMAIN in : IsReference(in[i]) => ~Exists(in[i]))
                   => (bucket' = bucket /\ uuids' = uuids)]_vars

\* C15 witness: a call with upload_images=true, the object store up and
\* images in image_dir returned a Markdown and an HTML reference to a missing
\* image as they were.
C15_Witness ==
    /\ resp.op = "rewrite" /\ resp.req[2] /\ resp.req[3]
    /\ \E f \in outfiles : IsPrefix(ImageDir, f)
    /\ \E i, j \in DOMAIN resp.req[1] :
          /\ resp.req[1][i].kind = "md" /\ resp.req[1][j].kind = "html"
          /\ ~Exists(resp.req[1][i]) /\ ~Exists(resp.req[1][j])
          /\ resp.body[1][i] = resp.req[1][i] /\ resp.body[1][j] = resp.req[1][j]

\* C16: with upload_images=true and the object store refusing the upload,
\* a reference to an existing image gets the URL upload_images=false gives
\* it (the whole content is the one upload_images=false returns), and the
\* call returns.
C16_UploadFailureFallsBack ==
    [][(RewriteStep /\ resp'.req[2] /\ ~resp'.req[3]) =>
          LET in == resp'.req[1]
              out == resp'.body[1]
              local == process_markdown_images(in,
                           Env(outfiles, ImageDir, ResultPath(1), FALSE, TRUE), uuids).out
          IN /\ out = local
             /\ bucket' = bucket
             /\ \A i \in DOMAIN in :
                   (IsReference(in[i]) /\ Exists(in[i])) => out[i].path = LocalUrl(in[i])]_vars

\* C16 witness: a call whose upload failed returned a local URL for an
\* existing image.
C16_Witness ==
    /\ resp.op = "rewrite" /\ resp.req[2] /\ ~resp.req[3]
    /\ \E i \in DOMAIN resp.req[1] :
          /\ IsReference(resp.req[1][i]) /\ Exists(resp.req[1][i])
          /\ ~IsPrefix(API_FILES_OUTPUT, resp.req[1][i].path)
          /\ IsPrefix(API_FILES_OUTPUT, resp.body[1][i].path)

\* The same URL with the name of the image as it is on disk.
PlainUrl(piece) ==
    Chars("/") \o Chars("api") \o Chars("/") \o Chars("v1") \o Chars("/") \o Chars("files")
        \o Chars("/") \o Chars("output") \o Chars("/") \o Chars("1") \o Chars("/")
        \o Chars("images") \o Chars("/") \o PathName(piece.path)

\* The reference returned is the reference given but for its target.
SameButTarget(in, out) ==
    /\ out.kind = in.kind
    /\ in.kind = "md" => out.alt = in.alt
    /\ in.kind = "html" => (out.before = in.before /\ out.after = in.after)

\* C17 as stated: with upload_images=false every reference whose basename
\* exists in image_dir gets the target /api/v1/files/output/<result_path
\* below the output root>/images/<basename>, a Markdown and an HTML reference
\* to the same image the same one, alt text and other attributes kept.
C17_LocalUrlOfBasename ==
    [][(RewriteStep /\ ~resp'.req[2]) =>
          LET in == resp'.req[1]
              out == resp'.body[1]
          IN \A i \in DOMAIN in :
                (IsReference(in[i]) /\ Exists(in[i]))
                   => /\ out[i].path = PlainUrl(in[i])
                      /\ SameButTarget(in[i], out[i])]_vars

\* C17 amended: the target is that URL with the basename URL-encoded (a
\* space becomes %20, a percent sign %25).
C17_LocalUrlOfQuotedBasename ==
    [][(RewriteStep /\ ~resp'.req[2]) =>
          LET in == resp'.req[1]
              out == resp'.body[1]
          IN /\ Len(out) = Len(in)
             /\ \A i \in DOMAIN in :
                   (IsReference(in[i]) /\ Exists(in[i]))
                      => /\ out[i].path = LocalUrl(in[i])
                         /\ SameButTarget(in[i], out[i])
             /\ \A i, j \in DOMAIN in :
                   (/\ IsReference(in[i]) /\ IsReference(in[j])
                    /\ Exists(in[i])
                    /\ PathName(in[i].path) = PathName(in[j].path))
                      => out[i].path = out[j].path]_vars

\* C17 witness: a call with upload_images=false rewrote a reference to an
\* image whose name needs escaping, and a Markdown and an HTML reference to
\* one image.
C17_Witness ==
    /\ resp.op = "rewrite" /\ ~resp.req[2]
    /\ \/ \E i \in DOMAIN resp.req[1] :
             /\ IsReference(resp.req[1][i]) /\ Exists(resp.req[1][i])
             /\ resp.body[1][i].path = LocalUrl(resp.req[1][i])
             /\ LocalUrl(resp.req[1][i]) # PlainUrl(resp.req[1][i])
             /\ resp.req[1][i].path # resp.body[1][i].path
       \/ \E i, j \in DOMAIN resp.req[1] :
             /\ resp.req[1][i].kind = "md" /\ resp.req[1][j].kind = "html"
             /\ Exists(resp.req[1][i])
             /\ resp.req[1][i].path # resp.body[1][i].path
             /\ resp.body[1][i].path = resp.body[1][j].path
             /\ resp.req[1][j].sp # resp.body[1][j].sp

\* Every reference of a document is an object-store URL.
AllMinioUrls(content) ==
    /\ \E i \in DOMAIN content : IsReference(content[i])
    /\ \A i \in DOMAIN content : IsReference(content[i]) => IsMinioUrl(content[i].path)

\* C18: the rewrite with upload_images=false applied to its own output
\* returns it unchanged, and the rewrite with upload_images=true applied to
\* content whose references are object-store URLs returns it unchanged and
\* uploads nothing.
C18_RewriteIdempotent ==
    [][/\ (/\ RewriteStep /\ ~resp'.req[2]
           /\ resp.op = "rewrite" /\ ~resp.req[2]
           /\ resp'.req[1] = resp.body[1])
             => resp'.body[1] = resp'.req[1]
       /\ (RewriteStep /\ resp'.req[2] /\ AllMinioUrls(resp'.req[1]))
             => (resp'.body[1] = resp'.req[1] /\ NoUpload)]_vars

\* C18, the part the code keeps: the same when no file of image_dir has a
\* percent sign in its name.
C18_IdempotentOnSafeNames ==
    [][(\A f \in outfiles : \A k \in DOMAIN Chars(f[Len(f)]) : Chars(f[Len(f)])[k] # "%")
       => /\ (/\ RewriteStep /\ ~resp'.req[2]
              /\ resp.op = "rewrite" /\ ~resp.req[2]
              /\ resp'.req[1] = resp.body[1])
                => resp'.body[1] = resp'.req[1]
          /\ (RewriteStep /\ resp'.req[2] /\ AllMinioUrls(resp'.req[1]))
                => (resp'.body[1] = resp'.req[1] /\ NoUpload)]_vars

\* The keys the response adds to the status fields.
ExtraKeys(e) == DOMAIN e.body[2]

\* C19: a GET of a completed task whose results are lost (result_path empty,
\* or the result directory not on disk) answers status completed with data
\* null and a message.
C19_LostResultsAreNull ==
    [][(/\ GetStep
        /\ tasks[resp'.task_id].status = "completed"
        /\ \/ tasks[resp'.task_id].result_path = Null
           \/ ~exists(outfiles, tasks[resp'.task_id].result_path[1]))
       => /\ resp'.body[1].status = "completed"
          /\ {"data", "message"} \subseteq ExtraKeys(resp')
          /\ resp'.body[2]["data"] = <<>>]_vars

\* C19, the part the code keeps: with result_path empty the response has data
\* null and the message.
C19_ClearedPathIsNull ==
    [][(/\ GetStep
        /\ tasks[resp'.task_id].status = "completed"
        /\ tasks[resp'.task_id].result_path = Null)
       => /\ resp'.body[1].status = "completed"
          /\ ExtraKeys(resp') = {"data", "message"}
          /\ resp'.body[2]["data"] = <<>>
          /\ resp'.body[2]["message"] = LOST_MESSAGE]_vars

\* C20: for a completed task with results on disk the keys of data follow
\* format: markdown gives the Markdown content and no json_content, json gives
\* json_content when a JSON result file exists and no Markdown content, both
\* gives both, whether or not the other kind of file is in the directory.
C20_FormatDecidesKeys ==
    [][(/\ GetStep
        /\ tasks[resp'.task_id].status = "completed"
        /\ tasks[resp'.task_id].result_path # Null
        /\ exists(outfiles, tasks[resp'.task_id].result_path[1]))
       => LET result_dir == tasks[resp'.task_id].result_path[1]
              has_md == md_files(outfiles, result_dir) # {}
              has_json == json_files(outfiles, result_dir) # {}
              keys == DataKeys(resp')
          IN /\ Format(resp') = "markdown"
                   => ((has_md => "content" \in keys) /\ "json_content" \notin keys)
             /\ Format(resp') = "json"
                   => ((has_json => "json_content" \in keys) /\ "content" \notin keys)
             /\ Format(resp') = "both"
                   => ((has_md => "content" \in keys) /\ (has_json => "json_content" \in keys))]_vars

\* C20, the part the code keeps: the same when the result directory holds a
\* Markdown file.
C20_FormatDecidesKeysWithMarkdown ==
    [][(GetStep /\ HasMarkdown(outfiles, tasks[resp'.task_id]))
       => LET has_json == json_files(outfiles, tasks[resp'.task_id].result_path[1]) # {}
              keys == DataKeys(resp')
          IN /\ ("content" \in keys) = (Format(resp') \in {"markdown", "both"})
             /\ ("json_content" \in keys) = (Format(resp') \in {"json", "both"} /\ has_json)]_vars

(***************************************************************************)
(* The selection of the Markdown file, checked under SpecMarkdown.         *)
(***************************************************************************)
\* The files named result.md under the result directory of a task.
ResultMds(files, task) ==
    {f \in files : IsPrefix(task.result_path[1], f) /\ f[Len(f)] = "result.md"}

\* C21: when a file named result.md exists anywhere under the result
\* directory, a GET that is not served from the cache returns the Markdown
\* of a file named result.md, whatever other .md files are there and in
\* whatever order they are listed.
C21_ResultMdPreferred ==
    [][(/\ GetStep
        /\ Format(resp') \in {"markdown", "both"}
        /\ HasMarkdown(outfiles, tasks[resp'.task_id])
        /\ ResultMds(outfiles, tasks[resp'.task_id]) # {}
        /\ "from_cache" \in DataKeys(resp') /\ Data(resp', "from_cache") = FALSE)
       => /\ Data(resp', "markdown_file") = "result.md"
          /\ \E f \in ResultMds(outfiles, tasks[resp'.task_id]) :
                ~is_dir(outfiles, Parent(f) \o <<"images">>) => Data(resp', "content") = text[f]]_vars

\* C21 witness: a response read from result.md although rglob listed a page
\* file and the cache before it.
C21_Witness ==
    /\ resp.op = "get_data" /\ resp.code = 200
    /\ "from_cache" \in DataKeys(resp) /\ Data(resp, "from_cache") = FALSE
    /\ Data(resp, "markdown_file") = "result.md"
    /\ Data(resp, "content") = Documents1
    /\ Len(Listing(resp)) >= 3
    /\ Listing(resp)[1][Len(Listing(resp)[1])] = "page_1.md"
    /\ Listing(resp)[2][Len(Listing(resp)[2])] = "result_minio.md"

(***************************************************************************)
(* The supervisor (backend/start_all.py).  main installs stop_services as  *)
(* the handler of SIGINT and SIGTERM, runs start_services and, when that   *)
(* returned True, wait.  One action is one statement of the supervisor at  *)
(* which a signal can be handled or a child can change: the creation of a  *)
(* child and its recording in self.processes are two statements.          *)
(***************************************************************************)
MaxProbes == 2

MaxSignals == 1

NoService == ""

\* The first service start_services launches.
first_service_api(l) == API

first_service(l) == IF l.start_local_vllm THEN VLLM ELSE API

\* The service launched after service s (NoService after the last one).
next_service(l, s) ==
    CASE s = VLLM      -> API
      [] s = API       -> WORKERS
      [] s = WORKERS   -> SCHEDULER
      [] s = SCHEDULER -> IF l.enable_mcp THEN MCP ELSE NoService
      [] s = MCP       -> NoService

\* proc.poll() is None
alive(state) == state \in {"running", "serving"}

models_ok_once_launched(state) == state # "absent"

\* GET /v1/models answers 200: the VLLM child has loaded its model.
models_ok(state) == state = "serving"

\* A message of the log about a service, and a signal received.
Logged(kind, name) == <<kind, name>>

\* SIGINT and SIGTERM have the same handler: the log tells them apart no more
\* than the supervisor does.
SIGNAL == "signal"

SignalsReceived == Cardinality({i \in DOMAIN log : log[i][1] = SIGNAL})

notSupVars == <<apiVars, engVars, split>>

\* return False from start_services, then sys.exit(1) in main.
StartFailed(kind, name) ==
    /\ log' = Append(log, Logged(kind, name))
    /\ pc' = At("exited", "", 0)
    /\ exit_status' = <<1>>
    /\ UNCHANGED <<launcher, processes, children>>

\* The entry of stop_services: the loops run over reversed(self.processes).
StopServices(kind, name) ==
    /\ log' = Append(log, Logged(kind, name))
    /\ pc' = At("terminate", "", Len(processes))
    /\ UNCHANGED <<launcher, processes, children, exit_status>>

\* start_services up to the first launch.
StartServices ==
    /\ pc.at = "start"
    /\ IF launcher.start_local_vllm /\ launcher.vllm_model_path = Null
       THEN StartFailed("model path required", VLLM)
       ELSE /\ pc' = At("popen", first_service(launcher), 0)
            /\ UNCHANGED <<launcher, processes, children, exit_status, log>>
    /\ UNCHANGED notSupVars

\* subprocess.Popen(...): the child runs, or Popen raises and the handler of
\* start_services calls stop_services.
Popen ==
    /\ pc.at = "popen"
    /\ \/ /\ children' = [children EXCEPT ![pc.name] = "running"]
          /\ pc' = At("append", pc.name, 0)
          /\ UNCHANGED <<launcher, processes, exit_status, log>>
       \/ StopServices("Failed to start services", pc.name)
    /\ UNCHANGED notSupVars

\* self.processes.append((name, proc))
AppendProcess ==
    /\ pc.at = "append"
    /\ processes' = Append(processes, pc.name)
    /\ pc' = At(IF pc.name = VLLM THEN "wait_for_vllm" ELSE "warmup", pc.name, 0)
    /\ UNCHANGED <<launcher, children, exit_status, log>>
    /\ UNCHANGED notSupVars

\* What follows the readiness step of service s when it passed.
Started(kind, s) ==
    /\ log' = Append(log, Logged(kind, s))
    /\ pc' = IF next_service(launcher, s) = NoService
             THEN At("wait", "", 0)
             ELSE At("popen", next_service(launcher, s), 0)
    /\ UNCHANGED <<launcher, processes, children, exit_status>>

\* One iteration of wait_for_vllm (pc.i iterations done), or its timeout.
WaitForVllm ==
    /\ pc.at = "wait_for_vllm"
    /\ IF pc.i >= MaxProbes THEN StartFailed("Timeout waiting for VLLM", VLLM)
       ELSE IF models_ok(children[VLLM]) THEN Started("ready", VLLM)
       ELSE IF ~alive(children[VLLM]) THEN StartFailed("died while starting", VLLM)
       ELSE /\ pc' = At("wait_for_vllm", VLLM, pc.i + 1)
            /\ UNCHANGED <<launcher, processes, children, exit_status, log>>
    /\ UNCHANGED notSupVars

\* time.sleep(n) then proc.poll() for the API server, the workers, the
\* scheduler and the MCP server.
Warmup ==
    /\ pc.at = "warmup"
    /\ IF alive(children[pc.name]) THEN Started("started", pc.name)
       ELSE StartFailed("failed to start", pc.name)
    /\ UNCHANGED notSupVars

\* The children of self.processes that wait() finds dead.
none_dead(procs, kids) == {}

dead_children(procs, kids) == {i \in DOMAIN procs : ~alive(kids[procs[i]])}

\* wait(): an iteration that finds a dead child calls stop_services.
Wait ==
    /\ pc.at = "wait"
    /\ dead_children(processes, children) # {}
    /\ LET i == CHOOSE i \in dead_children(processes, children) :
                    \A j \in dead_children(processes, children) : i <= j
       IN StopServices("unexpectedly stopped", processes[i])
    /\ UNCHANGED notSupVars

\* stop_services, first loop: proc.terminate() for the children still alive.
Terminate ==
    /\ pc.at = "terminate"
    /\ IF pc.i = 0
       THEN /\ pc' = At("join", "", Len(processes))
            /\ UNCHANGED log
       ELSE /\ pc' = At("terminate", "", pc.i - 1)
            /\ log' = IF alive(children[processes[pc.i]])
                      THEN Append(log, Logged("Stopping", processes[pc.i]))
                      ELSE log
    /\ UNCHANGED <<launcher, processes, children, exit_status>>
    /\ UNCHANGED notSupVars

\* stop_services, second loop: proc.wait(timeout=10) returns for a child that
\* has exited; for one that has not, TimeoutExpired, proc.kill(), proc.wait().
\* After the loop, sys.exit(0).
WaitProcess ==
    /\ pc.at = "join"
    /\ IF pc.i = 0
       THEN /\ pc' = At("exited", "", 0)
            /\ exit_status' = <<0>>
            /\ log' = Append(log, Logged("All Services Stopped", ""))
            /\ UNCHANGED children
       ELSE /\ pc' = At("join", "", pc.i - 1)
            /\ exit_status' = exit_status
            /\ IF alive(children[processes[pc.i]])
               THEN /\ log' = Append(log, Logged("forcing", processes[pc.i]))
                    /\ children' = [children EXCEPT ![processes[pc.i]] = "exited"]
               ELSE /\ log' = Append(log, Logged("stopped", processes[pc.i]))
                    /\ UNCHANGED children
    /\ UNCHANGED <<launcher, processes>>
    /\ UNCHANGED notSupVars

\* The statements of the supervisor.
Supervisor ==
    \/ StartServices
    \/ Popen
    \/ AppendProcess
    \/ WaitForVllm
    \/ Warmup
    \/ Wait
    \/ Terminate
    \/ WaitProcess

\* SIGINT or SIGTERM: the handler stop_services runs on top of the statement
\* the supervisor is at, and does not return (it ends with sys.exit).
Signal ==
    /\ pc.at # "exited"
    /\ SignalsReceived < MaxSignals
    /\ StopServices(SIGNAL, "")
    /\ UNCHANGED notSupVars

\* A child exits on its own: a crash, or its answer to a termination signal.
ChildExits ==
    /\ \E s \in Services :
          /\ alive(children[s])
          /\ children' = [children EXCEPT ![s] = "exited"]
    /\ UNCHANGED <<launcher, processes, pc, exit_status, log>>
    /\ UNCHANGED notSupVars

\* The VLLM child has loaded its model and serves /v1/models.
VllmServes ==
    /\ children[VLLM] = "running"
    /\ children' = [children EXCEPT ![VLLM] = "serving"]
    /\ UNCHANGED <<launcher, processes, pc, exit_status, log>>
    /\ UNCHANGED notSupVars

\* main, after the handlers are installed, for every choice of the options.
InitSupervisor ==
    /\ tasks = <<>>
    /\ seq = 0
    /\ uploads = {}
    /\ uuids = 0
    /\ outfiles = {}
    /\ cancelling = <<>>
    /\ now = 0
    /\ text = <<>>
    /\ bucket = {}
    /\ resp = NoEvent
    /\ launcher \in [start_local_vllm : BOOLEAN, vllm_model_path : {Null, <<"model">>},
                     enable_mcp : BOOLEAN]
    /\ processes = <<>>
    /\ children = [s \in Services |-> "absent"]
    /\ pc = At("start", "", 0)
    /\ exit_status = Null
    /\ log = <<>>
    /\ EngIdle
    /\ split = NoSplit

NextSupervisor ==
    \/ Supervisor
    \/ Signal
    \/ ChildExits
    \/ VllmServes

SpecSupervisor == InitSupervisor /\ [][NextSupervisor]_vars

\* The supervisor is scheduled: it does not stay for ever before a statement
\* it can execute.
SpecSupervisorFair == SpecSupervisor /\ WF_vars(Supervisor)

(***************************************************************************)
(* Properties of the supervisor, checked under SpecSupervisor and          *)
(* SpecSupervisorFair.                                                     *)
(***************************************************************************)
LaunchOrder == <<VLLM, API, WORKERS, SCHEDULER, MCP>>

Position(s) == CHOOSE i \in DOMAIN LaunchOrder : LaunchOrder[i] = s

\* The options ask for service s.
Enabled(s) ==
    /\ s = VLLM => launcher.start_local_vllm
    /\ s = MCP => launcher.enable_mcp

\* The step creates the child of service s.
Launches(s) == children[s] = "absent" /\ children'[s] # "absent"

\* The step logs a message about service s.
Logs(kind, s) == log' = Append(log, <<kind, s>>)

\* The supervisor has found service s alive after its readiness step: the
\* probe of /v1/models answered 200 (VLLM), the child was running after the
\* warmup (the others).
FoundAlive(s) ==
    \E i \in DOMAIN log : log[i] = <<IF s = VLLM THEN "ready" ELSE "started", s>>

\* C22: children are launched in the order VLLM (if enabled), API server,
\* workers, scheduler, MCP (if enabled): a service is launched only if it is
\* enabled, after every enabled service before it was launched and found
\* alive after its readiness step, and before every service after it; the
\* supervisor finds VLLM ready only when /v1/models answers 200 and another
\* service started only when its child is alive.  With local VLLM the API
\* server is so launched only after /v1/models answered 200.
C22_LaunchOrder ==
    [][/\ \A s \in Services :
            Launches(s) =>
                /\ Enabled(s)
                /\ \A p \in Services :
                      /\ (Position(p) < Position(s) /\ Enabled(p))
                            => (children[p] # "absent" /\ FoundAlive(p))
                      /\ Position(p) > Position(s) => children[p] = "absent"
       /\ Logs("ready", VLLM) => children[VLLM] = "serving"
       /\ \A s \in Services : Logs("started", s) => children[s] = "running"]_vars

\* C22 witness: the five services launched, the supervisor in its wait loop.
C22_Witness ==
    /\ pc.at = "wait"
    /\ \A s \in Services : children[s] # "absent"
    /\ processes = LaunchOrder

\* The supervisor has handled a signal and has exited.
ShutdownFinished == pc.at = "exited" /\ SignalsReceived > 0

\* C23: when the shutdown a signal started has finished, every child that
\* was launched has exited (and the supervisor has exited).
C23_ShutdownStopsEveryChild ==
    ShutdownFinished => \A s \in Services : children[s] \in {"absent", "exited"}

\* C23, the part the code keeps: when that shutdown has finished, every child
\* recorded in self.processes has exited and the exit status is 0.
C23_ShutdownStopsRecordedChildren ==
    ShutdownFinished =>
        /\ exit_status = <<0>>
        /\ \A i \in DOMAIN processes : children[processes[i]] = "exited"

\* C23, the order the code keeps: the termination signal goes to the children
\* recorded that are still alive, from the last recorded to the first, and a
\* child is killed only when it is still alive at its wait.
C23_ReverseOrder ==
    [][/\ \A s \in Services :
            Logs("Stopping", s) =>
                /\ pc.at = "terminate" /\ s = processes[pc.i] /\ alive(children[s])
                /\ pc'.at = "terminate" /\ pc'.i = pc.i - 1
       /\ \A s \in Services :
            Logs("forcing", s) =>
                /\ pc.at = "join" /\ s = processes[pc.i] /\ alive(children[s])
                /\ children'[s] = "exited"]_vars

\* C23, the progress the code keeps: after a signal the supervisor exits.
C23_SignalLeadsToExit == (SignalsReceived > 0) ~> (pc.at = "exited")

\* The supervisor is in its wait loop with every enabled service recorded.
SteadyState == pc.at = "wait"

\* A child recorded by the supervisor has exited while it waits.
ChildDied == SteadyState /\ \E i \in DOMAIN processes : children[processes[i]] = "exited"

\* Every child launched has exited and the supervisor has exited.
AllStopped ==
    /\ pc.at = "exited"
    /\ \A s \in Services : children[s] \in {"absent", "exited"}

\* C24: in steady state, when a child has exited the supervisor eventually
\* has terminated all the remaining children and has exited; from the steady
\* state on no child is created and no exited child runs again.
C24_ChildDeathStopsAll ==
    /\ ChildDied ~> AllStopped
    /\ [][\A s \in Services :
            /\ children[s] = "exited" => children'[s] = "exited"
            /\ (pc.at \in {"wait", "terminate", "join", "exited"} /\ children[s] = "absent")
                  => children'[s] = "absent"]_vars

\* C24 witness: the supervisor has exited after it found the scheduler dead
\* in its wait loop and had to terminate the other children.
C24_Witness ==
    /\ AllStopped
    /\ SignalsReceived = 0
    /\ \E i \in DOMAIN log : log[i] = <<"unexpectedly stopped", SCHEDULER>>
    /\ \E i \in DOMAIN log : log[i] = <<"Stopping", API>>
    /\ \E i \in DOMAIN log : log[i] = <<"forcing", WORKERS>>

(***************************************************************************)
(* The PaddleOCR-VL engine (backend/paddleocr_vl_vllm/engine.py) in a      *)
(* worker process with several threads.  One action is one statement of a  *)
(* thread at which another thread can run: a test of a shared attribute,   *)
(* the acquisition of the lock, the body under the lock, its release.      *)
(***************************************************************************)
MaxCalls == 2

\* f"cuda:{n}"
CUDA(n) == <<"c", "u", "d", "a", ":", Digit(n)>>

DEFAULT_DEVICE == CUDA(0)

DEFAULT_API_BASE == "http://localhost:17300/v1"

\* The devices callers ask for: two GPUs and a string that names none.
Devices == {CUDA(0), CUDA(1), <<"c", "p", "u">>}

\* sub in s
Contains(s, sub) == \E i \in 1..(Len(s) - Len(sub) + 1) : SubSeq(s, i, i + Len(sub) - 1) = sub

\* int(s) for a string of digits
DigitValue(c) == CHOOSE n \in 0..9 : Digit(n) = c

RECURSIVE int(_)
int(s) == IF s = <<>> THEN 0 ELSE 10 * int(SubSeq(s, 1, Len(s) - 1)) + DigitValue(s[Len(s)])

\* The GPU id __init__ derives from device.
gpu_id_of(device) ==
    IF Contains(device, <<"c", "u", "d", "a", ":">>)
    THEN int(SubSeq(device, LastIndexOf(device, ":") + 1, Len(device)))
    ELSE 0

\* super().__new__(cls): an instance with the class attributes.
NewInstance ==
    [initialized |-> FALSE, device |-> <<>>, vllm_api_base |-> "", gpu_id |-> 0,
     pipeline |-> <<>>]

\* The tests of the double-checked locking, made again under the lock.
instance_always_missing(inst) == TRUE

instance_missing(inst) == inst = 0

\* The value of the lock after thread t leaves a with block.
release_never(t) == t

release(t) == 0

\* The page results pipeline.predict returns for a file, the Markdown of a
\* page being a str or a dict.  ok: saving the page raises nothing.
StrMarkdown(s) == [is_str |-> TRUE, str |-> s, dict |-> <<>>]

DictMarkdown(key, s) == [is_str |-> FALSE, str |-> "", dict |-> (key :> s)]

PageResult(ok, markdown) == [ok |-> ok, markdown |-> markdown]

\* The Markdown objects parse collects: those of the pages that have one and
\* whose saving raised nothing, in page order.
markdown_list(result) ==
    LET kept == SelectSeq(result, LAMBDA res : res.ok /\ res.markdown # <<>>)
    IN [i \in DOMAIN kept |-> kept[i].markdown[1]]

\* str(md) if isinstance(md, str) else str(md.get("text", ""))
md_text(md) ==
    IF md.is_str THEN md.str
    ELSE IF "text" \in DOMAIN md.dict THEN md.dict["text"] ELSE ""

SEPARATOR == "\n\n---\n\n"

\* sep.join(parts), as the sequence of the parts and the separators.
RECURSIVE join(_, _)
join(sep, parts) ==
    IF Len(parts) <= 1 THEN parts
    ELSE <<parts[1], sep>> \o join(sep, Tail(parts))

\* hasattr(pipeline, "concatenate_markdown_pages")
pipeline_concatenates(pipeline) == pipeline.concat

\* The content of result.md: what concatenate_markdown_pages returns for the
\* list, or the texts of the list joined by the separator.
markdown_text(pipeline, result) ==
    IF pipeline_concatenates(pipeline)
    THEN [by |-> "concatenate_markdown_pages", of |-> markdown_list(result)]
    ELSE [by |-> "join",
          of |-> join(SEPARATOR, [i \in DOMAIN markdown_list(result)
                                    |-> md_text(markdown_list(result)[i])])]

\* output_path of a parse of file f.
OutputPath(f) == OUTPUT_DIR \o <<f>>

notEngVars == <<tasks, seq, uploads, uuids, cancelling, now, bucket, resp, supVars, split>>

\* The call of thread t returns ret or raises.
Returned(t, frame, ret, outcome) ==
    threads' = [threads EXCEPT ![t] = [frame EXCEPT !.pc = "idle", !.ret = ret,
                                                   !.outcome = outcome, !.calls = @ + 1]]

Goto(t, pc_) == threads' = [threads EXCEPT ![t].pc = pc_]

\* A thread at rest calls the constructor, get_engine, or parse on the engine
\* it obtained last.
Call(t) ==
    /\ threads[t].pc = "idle"
    /\ threads[t].calls < MaxCalls
    /\ \/ \E d \in Devices :
             threads' = [threads EXCEPT ![t] = [@ EXCEPT !.pc = "new_check", !.op = "new",
                                                        !.device = d, !.outcome = "none"]]
       \/ threads' = [threads EXCEPT ![t] = [@ EXCEPT !.pc = "get_check", !.op = "get_engine",
                                                      !.device = DEFAULT_DEVICE,
                                                      !.outcome = "none"]]
       \/ /\ threads[t].self # 0
          /\ \E f \in DOMAIN documents :
                threads' = [threads EXCEPT ![t] = [@ EXCEPT !.pc = "load_check", !.op = "parse",
                                                           !.file = f, !.outcome = "none",
                                                           !.cleaned = FALSE]]
    /\ UNCHANGED <<instances, instance, engine, lock, counts, documents, outfiles, text>>
    /\ UNCHANGED notEngVars

\* __new__: if cls._instance is None
NewCheck(t) ==
    /\ threads[t].pc = "new_check"
    /\ IF instance = 0
       THEN Goto(t, "new_lock")
       ELSE threads' = [threads EXCEPT ![t] = [@ EXCEPT !.pc = "init_check", !.self = instance]]
    /\ UNCHANGED <<instances, instance, engine, lock, counts, documents, outfiles, text>>
    /\ UNCHANGED notEngVars

\* __new__: with cls._lock
NewLock(t) ==
    /\ threads[t].pc = "new_lock"
    /\ lock = 0
    /\ lock' = t
    /\ Goto(t, "new_create")
    /\ UNCHANGED <<instances, instance, engine, counts, documents, outfiles, text>>
    /\ UNCHANGED notEngVars

\* __new__: if cls._instance is None: cls._instance = super().__new__(cls)
NewCreate(t) ==
    /\ threads[t].pc = "new_create"
    /\ IF instance_missing(instance)
       THEN /\ instances' = Append(instances, NewInstance)
            /\ instance' = Len(instances) + 1
       ELSE UNCHANGED <<instances, instance>>
    /\ Goto(t, "new_unlock")
    /\ UNCHANGED <<engine, lock, counts, documents, outfiles, text>>
    /\ UNCHANGED notEngVars

\* __new__: the end of the with block, and return cls._instance
NewUnlock(t) ==
    /\ threads[t].pc = "new_unlock"
    /\ lock' = release(t)
    /\ threads' = [threads EXCEPT ![t] = [@ EXCEPT !.pc = "init_check", !.self = instance]]
    /\ UNCHANGED <<instances, instance, engine, counts, documents, outfiles, text>>
    /\ UNCHANGED notEngVars

\* The constructor is over: it returns self to its caller, or to get_engine.
Constructed(t) ==
    IF threads[t].op = "get_engine"
    THEN Goto(t, "get_assign")
    ELSE Returned(t, threads[t], threads[t].self, "returned")

\* __init__: if self._initialized: return
InitCheck(t) ==
    /\ threads[t].pc = "init_check"
    /\ IF instances[threads[t].self].initialized
       THEN Constructed(t)
       ELSE Goto(t, "init_lock")
    /\ UNCHANGED <<instances, instance, engine, lock, counts, documents, outfiles, text>>
    /\ UNCHANGED notEngVars

\* __init__: with self._lock
InitLock(t) ==
    /\ threads[t].pc = "init_lock"
    /\ lock = 0
    /\ lock' = t
    /\ Goto(t, "init_body")
    /\ UNCHANGED <<instances, instance, engine, counts, documents, outfiles, text>>
    /\ UNCHANGED notEngVars

\* __init__ under the lock: if self._initialized: return; else the body, which
\* stores device, vllm_api_base and gpu_id, checks the GPU and sets
\* _initialized.
InitBody(t) ==
    /\ threads[t].pc = "init_body"
    /\ IF instances[threads[t].self].initialized
       THEN UNCHANGED <<instances, counts>>
       ELSE /\ instances' = [instances EXCEPT ![threads[t].self] =
                                [@ EXCEPT !.initialized = TRUE,
                                          !.device = threads[t].device,
                                          !.vllm_api_base = DEFAULT_API_BASE,
                                          !.gpu_id = gpu_id_of(threads[t].device)]]
            /\ counts' = [counts EXCEPT !.init = @ + 1]
    /\ Goto(t, "init_unlock")
    /\ UNCHANGED <<instance, engine, lock, documents, outfiles, text>>
    /\ UNCHANGED notEngVars

\* __init__: the end of the with block
InitUnlock(t) ==
    /\ threads[t].pc = "init_unlock"
    /\ lock' = release(t)
    /\ Constructed(t)
    /\ UNCHANGED <<instances, instance, engine, counts, documents, outfiles, text>>
    /\ UNCHANGED notEngVars

\* get_engine: if _engine is None: _engine = PaddleOCRVLVLLMEngine()
GetCheck(t) ==
    /\ threads[t].pc = "get_check"
    /\ IF engine = 0
       THEN Goto(t, "new_check")
       ELSE Returned(t, [threads[t] EXCEPT !.self = engine], engine, "returned")
    /\ UNCHANGED <<instances, instance, engine, lock, counts, documents, outfiles, text>>
    /\ UNCHANGED notEngVars

\* get_engine: the assignment of _engine, and return _engine
GetAssign(t) ==
    /\ threads[t].pc = "get_assign"
    /\ engine' = threads[t].self
    /\ Returned(t, threads[t], threads[t].self, "returned")
    /\ UNCHANGED <<instances, instance, lock, counts, documents, outfiles, text>>
    /\ UNCHANGED notEngVars

\* self._pipeline is not None
pipeline_never_loaded(inst) == FALSE

pipeline_loaded(inst) == inst.pipeline # <<>>

\* _load_pipeline: if self._pipeline is not None: return self._pipeline
LoadCheck(t) ==
    /\ threads[t].pc = "load_check"
    /\ Goto(t, IF pipeline_loaded(instances[threads[t].self]) THEN "predict" ELSE "load_lock")
    /\ UNCHANGED <<instances, instance, engine, lock, counts, documents, outfiles, text>>
    /\ UNCHANGED notEngVars

\* _load_pipeline: with self._lock
LoadLock(t) ==
    /\ threads[t].pc = "load_lock"
    /\ lock = 0
    /\ lock' = t
    /\ Goto(t, "load_body")
    /\ UNCHANGED <<instances, instance, engine, counts, documents, outfiles, text>>
    /\ UNCHANGED notEngVars

\* _load_pipeline under the lock: the second test, then PaddleOCRVL(...),
\* which returns a pipeline (with or without concatenate_markdown_pages) or
\* raises; the exception leaves the with block and parse, whose try block has
\* not begun.
LoadBody(t) ==
    /\ threads[t].pc = "load_body"
    /\ IF pipeline_loaded(instances[threads[t].self])
       THEN /\ Goto(t, "load_unlock")
            /\ UNCHANGED <<instances, counts, lock>>
       ELSE \/ \E concat \in BOOLEAN :
                 /\ instances' = [instances EXCEPT ![threads[t].self].pipeline =
                                      <<[id |-> counts.load + 1, concat |-> concat]>>]
                 /\ counts' = [counts EXCEPT !.load = @ + 1]
                 /\ Goto(t, "load_unlock")
                 /\ UNCHANGED lock
            \/ /\ lock' = release(t)
               /\ Returned(t, threads[t], 0, "raised")
               /\ UNCHANGED <<instances, counts>>
    /\ UNCHANGED <<instance, engine, documents, outfiles, text>>
    /\ UNCHANGED notEngVars

\* _load_pipeline: the end of the with block; parse goes on to predict
LoadUnlock(t) ==
    /\ threads[t].pc = "load_unlock"
    /\ lock' = release(t)
    /\ Goto(t, "predict")
    /\ UNCHANGED <<instances, instance, engine, counts, documents, outfiles, text>>
    /\ UNCHANGED notEngVars

\* parse: pipeline.predict(**predict_params) and restructure_pages return, or
\* predict raises.
Predict(t) ==
    /\ threads[t].pc = "predict"
    /\ \/ Goto(t, "save")
       \/ threads' = [threads EXCEPT ![t] = [@ EXCEPT !.pc = "finally", !.outcome = "raised"]]
    /\ UNCHANGED <<instances, instance, engine, lock, counts, documents, outfiles, text>>
    /\ UNCHANGED notEngVars

\* parse: the loop over the pages, the merge and the writing of result.md, or
\* an exception in them.
SaveResults(t) ==
    /\ threads[t].pc = "save"
    /\ \/ LET markdown_file == OutputPath(threads[t].file) \o <<"result.md">> IN
          /\ outfiles' = outfiles \cup {markdown_file}
          /\ text' = (markdown_file :> markdown_text(instances[threads[t].self].pipeline[1],
                                                     documents[threads[t].file])) @@ text
          /\ threads' = [threads EXCEPT ![t] = [@ EXCEPT !.pc = "finally",
                                                         !.outcome = "returned"]]
       \/ /\ threads' = [threads EXCEPT ![t] = [@ EXCEPT !.pc = "finally", !.outcome = "raised"]]
          /\ UNCHANGED <<outfiles, text>>
    /\ UNCHANGED <<instances, instance, engine, lock, counts, documents>>
    /\ UNCHANGED notEngVars

\* parse: finally: self.cleanup(), then the return or the exception.
Finally(t) ==
    /\ threads[t].pc = "finally"
    /\ Returned(t, [threads[t] EXCEPT !.cleaned = TRUE], 0, threads[t].outcome)
    /\ UNCHANGED <<instances, instance, engine, lock, counts, documents, outfiles, text>>
    /\ UNCHANGED notEngVars

\* A document of one page whose Markdown is a str.
OnePage == <<PageResult(TRUE, <<StrMarkdown("p1")>>)>>

\* The worker process before any engine is created, a file waiting.
InitEngine ==
    /\ tasks = <<>>
    /\ seq = 0
    /\ uploads = {}
    /\ uuids = 0
    /\ outfiles = {}
    /\ cancelling = <<>>
    /\ now = 0
    /\ text = <<>>
    /\ bucket = {}
    /\ resp = NoEvent
    /\ SupIdle
    /\ split = NoSplit
    /\ instances = <<>>
    /\ instance = 0
    /\ engine = 0
    /\ lock = 0
    /\ threads = [t \in Threads |-> IdleFrame]
    /\ counts = [init |-> 0, load |-> 0]
    /\ documents = ("a.pdf" :> OnePage)

NextEngine ==
    \E t \in Threads :
        \/ Call(t)
        \/ NewCheck(t)
        \/ NewLock(t)
        \/ NewCreate(t)
        \/ NewUnlock(t)
        \/ InitCheck(t)
        \/ InitLock(t)
        \/ InitBody(t)
        \/ InitUnlock(t)
        \/ GetCheck(t)
        \/ GetAssign(t)
        \/ LoadCheck(t)
        \/ LoadLock(t)
        \/ LoadBody(t)
        \/ LoadUnlock(t)
        \/ Predict(t)
        \/ SaveResults(t)
        \/ Finally(t)

SpecEngine == InitEngine /\ [][NextEngine]_vars

(***************************************************************************)
(* Properties of the engine, checked under SpecEngine.                     *)
(***************************************************************************)
\* Thread t is back from a call of op that ended as outcome.
Back(t, op, outcome) ==
    threads[t].pc = "idle" /\ threads[t].op = op /\ threads[t].outcome = outcome

\* C25: under every interleaving of constructor and get_engine calls there is
\* one engine instance, every caller obtains it, initialised, and the body of
\* __init__ has run exactly once when a caller returns and never runs again.
C25_OneEngineInitialisedOnce ==
    /\ Len(instances) <= 1
    /\ counts.init <= 1
    /\ \A t \in Threads :
          (Back(t, "new", "returned") \/ Back(t, "get_engine", "returned"))
              => /\ threads[t].ret = 1 /\ threads[t].ret = instance
                 /\ instances[threads[t].ret].initialized
                 /\ counts.init = 1

\* C25 witness: a thread that found the engine uninitialised waits for the
\* lock while the other one, back from its own constructor call, has
\* initialised it.
C25_Witness ==
    \E t, u \in Threads :
        /\ threads[t].pc = "init_lock"
        /\ Back(u, "new", "returned")
        /\ instances[threads[t].self].initialized
        /\ threads[t].self = threads[u].ret

\* C26: a constructor call for device d returns an engine whose device is d
\* and whose gpu_id is that of d.
C26_DevicePinned ==
    \A t \in Threads :
        Back(t, "new", "returned")
            => /\ instances[threads[t].ret].device = threads[t].device
               /\ instances[threads[t].ret].gpu_id = gpu_id_of(threads[t].device)

\* C26, what the code does instead: the engine keeps the device, the GPU id
\* and the API base of its first initialisation.
C26_FirstDeviceKept ==
    [][\A i \in DOMAIN instances :
          instances[i].initialized
              => /\ instances'[i].device = instances[i].device
                 /\ instances'[i].gpu_id = instances[i].gpu_id
                 /\ instances'[i].vllm_api_base = instances[i].vllm_api_base]_vars

\* C27: when a call of parse is over, by a return or by an exception,
\* cleanup() has run in it.
C27_ParseAlwaysCleansUp ==
    \A t \in Threads :
        (Back(t, "parse", "returned") \/ Back(t, "parse", "raised")) => threads[t].cleaned

\* C27, the part the code keeps: a call of parse that has its pipeline ends
\* through cleanup(), whether prediction and saving returned or raised.
C27_CleansUpOncePipelineLoaded ==
    [][\A t \in Threads :
          (threads[t].pc \in {"predict", "save", "finally"} /\ threads'[t].pc = "idle")
              => threads'[t].cleaned]_vars

\* The statements a thread executes with the lock.
Locked == {"new_create", "new_unlock", "init_body", "init_unlock", "load_body", "load_unlock"}

\* C28: the lock is held exactly by a thread that creates the instance,
\* initialises it or loads the pipeline, never by a thread in prediction or
\* after it; and while a thread is in a call some thread can take a step (no
\* interleaving leaves the threads waiting for the lock for ever).
C28_LockOnlyForInitialisation ==
    /\ \A t \in Threads : (lock = t) = (threads[t].pc \in Locked)
    /\ lock \in Threads \cup {0}
    /\ (\E t \in Threads : threads[t].pc # "idle") => ENABLED NextEngine

\* C28 witness: two parse calls inside prediction at the same time.
C28_Witness ==
    /\ \A t \in Threads : threads[t].pc = "predict" /\ threads[t].op = "parse"
    /\ lock = 0

(***************************************************************************)
(* parse on files of several pages: pages whose Markdown is a str or a     *)
(* dict, pages without Markdown, pages whose saving raises.                *)
(***************************************************************************)
ParseDocuments ==
    ("two.pdf" :> <<PageResult(TRUE, <<StrMarkdown("p1")>>), PageResult(TRUE, <<StrMarkdown("p2")>>)>>)
    @@ ("torn.pdf" :> <<PageResult(TRUE, <<StrMarkdown("p1")>>),
                        PageResult(FALSE, <<StrMarkdown("p2")>>),
                        PageResult(TRUE, <<>>),
                        PageResult(TRUE, <<DictMarkdown("text", "p4")>>)>>)
    @@ ("dicts.pdf" :> <<PageResult(TRUE, <<DictMarkdown("markdown_texts", "p1")>>),
                         PageResult(TRUE, <<DictMarkdown("markdown_texts", "p2")>>)>>)
    @@ ("empty.pdf" :> <<>>)

InitParse ==
    /\ tasks = <<>>
    /\ seq = 0
    /\ uploads = {}
    /\ uuids = 0
    /\ outfiles = {}
    /\ cancelling = <<>>
    /\ now = 0
    /\ text = <<>>
    /\ bucket = {}
    /\ resp = NoEvent
    /\ SupIdle
    /\ split = NoSplit
    /\ instances = <<>>
    /\ instance = 0
    /\ engine = 0
    /\ lock = 0
    /\ threads = [t \in Threads |-> IdleFrame]
    /\ counts = [init |-> 0, load |-> 0]
    /\ documents = ParseDocuments

SpecParse == InitParse /\ [][NextEngine]_vars

\* The pages of a file that were processed: those that have Markdown and
\* whose saving raised nothing.
Processed(f) ==
    {i \in DOMAIN documents[f] : documents[f][i].ok /\ documents[f][i].markdown # <<>>}

\* The k-th processed page of a file.
RECURSIVE NthProcessed(_, _)
NthProcessed(f, k) ==
    LET first == CHOOSE i \in Processed(f) : \A j \in Processed(f) : i <= j
        after(n) == CHOOSE i \in Processed(f) :
                        /\ i > n
                        /\ \A j \in Processed(f) : j > n => i <= j
    IN IF k = 1 THEN first ELSE after(NthProcessed(f, k - 1))

\* The Markdown of a page: the str, or the text the dict holds.
PageMarkdown(md) ==
    IF md.is_str THEN md.str ELSE md.dict[CHOOSE key \in DOMAIN md.dict : TRUE]

\* The Markdown of the processed pages of a file, in page order, with the
\* separator between two pages.
Separated(f) ==
    LET n == Cardinality(Processed(f)) IN
    [i \in 1..(IF n = 0 THEN 0 ELSE 2 * n - 1) |->
        IF i % 2 = 1 THEN PageMarkdown(documents[f][NthProcessed(f, (i + 1) \div 2)].markdown[1])
        ELSE SEPARATOR]

\* result.md of the parse thread t is back from.
ResultMd(t) == text[OutputPath(threads[t].file) \o <<"result.md">>]

\* C29: after a successful parse, result.md holds the Markdown of the
\* processed pages in page order: what concatenate_markdown_pages made of
\* their list when the pipeline has it, else their Markdown joined by the
\* separator.
C29_ResultMdJoinsPages ==
    \A t \in Threads :
        Back(t, "parse", "returned") =>
            LET f == threads[t].file
                pages == [k \in 1..Cardinality(Processed(f)) |->
                             documents[f][NthProcessed(f, k)].markdown[1]]
            IN IF instances[threads[t].self].pipeline[1].concat
               THEN ResultMd(t) = [by |-> "concatenate_markdown_pages", of |-> pages]
               ELSE ResultMd(t) = [by |-> "join", of |-> Separated(f)]

\* C29, the part the code keeps: the same, for the files whose pages give
\* their Markdown as a str or as a dict with the key text.
C29_JoinsPagesWithText ==
    \A t \in Threads :
        (/\ Back(t, "parse", "returned")
         /\ \A i \in Processed(threads[t].file) :
               LET md == documents[threads[t].file][i].markdown[1]
               IN md.is_str \/ "text" \in DOMAIN md.dict) =>
            LET f == threads[t].file
                pages == [k \in 1..Cardinality(Processed(f)) |->
                             documents[f][NthProcessed(f, k)].markdown[1]]
            IN IF instances[threads[t].self].pipeline[1].concat
               THEN ResultMd(t) = [by |-> "concatenate_markdown_pages", of |-> pages]
               ELSE ResultMd(t) = [by |-> "join", of |-> Separated(f)]

(***************************************************************************)
(* utils/pdf_utils.py: split_pdf_file, one step per turn of its loop.      *)
(***************************************************************************)
MaxPages == 6
MaxChunkSize == 4

end_page_unclipped(i, chunk_size, total_pages) == i + chunk_size

\* end_page = min(i + chunk_size, total_pages)
end_page(i, chunk_size, total_pages) ==
    IF i + chunk_size <= total_pages THEN i + chunk_size ELSE total_pages

\* f"{pdf_path.stem}_pages_{start_page + 1}-{end_page}.pdf", by its numbers.
chunk_filename(start_page, last_page) == <<start_page + 1, last_page>>

\* The dict appended for the pages start_page .. last_page - 1 (0-based).
chunk(start_page, last_page) ==
    [path |-> chunk_filename(start_page, last_page),
     start_page |-> start_page + 1,
     end_page |-> last_page,
     page_count |-> last_page - start_page]

notSplitVars == <<apiVars, supVars, engVars>>

\* split_pdf_file(pdf_path, output_dir, chunk_size): the directory is made
\* and the document opened, or one of them raises.
SplitPdfFile ==
    /\ split.at = "idle"
    /\ \/ split' = [split EXCEPT !.at = "loop", !.i = 0, !.chunks = <<>>]
       \/ split' = [split EXCEPT !.at = "raised"]
    /\ UNCHANGED notSplitVars

\* One turn of for i in range(0, total_pages, chunk_size): the chunk is
\* saved and appended, or saving raises.
SplitChunk ==
    /\ split.at = "loop"
    /\ split.i < split.total_pages
    /\ \/ split' = [split EXCEPT
                       !.chunks = Append(@, chunk(split.i,
                                     end_page(split.i, split.chunk_size, split.total_pages))),
                       !.i = @ + split.chunk_size]
       \/ split' = [split EXCEPT !.at = "raised"]
    /\ UNCHANGED notSplitVars

\* The range is exhausted: doc.close(); return chunks.
SplitReturn ==
    /\ split.at = "loop"
    /\ split.i >= split.total_pages
    /\ split' = [split EXCEPT !.at = "returned"]
    /\ UNCHANGED notSplitVars

InitSplit ==
    /\ tasks = <<>>
    /\ seq = 0
    /\ uploads = {}
    /\ uuids = 0
    /\ outfiles = {}
    /\ cancelling = <<>>
    /\ now = 0
    /\ text = <<>>
    /\ bucket = {}
    /\ resp = NoEvent
    /\ SupIdle
    /\ EngIdle
    /\ \E total_pages \in 0..MaxPages, chunk_size \in 1..MaxChunkSize :
          split = [NoSplit EXCEPT !.total_pages = total_pages, !.chunk_size = chunk_size]

NextSplit == SplitPdfFile \/ SplitChunk \/ SplitReturn

SpecSplit == InitSplit /\ [][NextSplit]_vars

\* ceil(n / c)
Ceil(n, c) == (n + c - 1) \div c

\* C30: the chunks split_pdf_file returns for a PDF of N pages and a chunk
\* size c >= 1 partition the pages 1..N in order: there are ceil(N/c) of
\* them, the first starts at page 1, each starts one page after the end of
\* the one before, the last ends at N, page_count = end_page - start_page + 1,
\* every chunk but the last has c pages and the last has between 1 and c.
C30_ChunksPartitionPages ==
    split.at = "returned" =>
        LET chunks == split.chunks
            N == split.total_pages
            c == split.chunk_size
            n == Len(chunks)
        IN /\ n = Ceil(N, c)
           /\ n > 0 => /\ chunks[1].start_page = 1
                       /\ chunks[n].end_page = N
                       /\ chunks[n].page_count \in 1..c
           /\ \A k \in 2..n : chunks[k].start_page = chunks[k - 1].end_page + 1
           /\ \A k \in 1..n : chunks[k].page_count = chunks[k].end_page - chunks[k].start_page + 1
           /\ \A k \in 1..(n - 1) : chunks[k].page_count = c

\* A PDF was split into several chunks, the last one shorter than the others.
C30_Witness ==
    /\ split.at = "returned"
    /\ Len(split.chunks) >= 2
    /\ split.chunks[Len(split.chunks)].page_count < split.chunk_size

(***************************************************************************)
(* Properties of the supervisor when starting fails, and of its exit.      *)
(***************************************************************************)
\* The services launched after the readiness of VLLM.
AfterVllm == {API, WORKERS, SCHEDULER, MCP}

\* The supervisor executes a statement of its own (no signal handler runs).
SupervisorStep == pc' # pc /\ SignalsReceived' = SignalsReceived

\* start_services has returned False: main exits with status 1.
ReportsFailure == pc.at = "exited" /\ exit_status = <<1>>

\* The supervisor has logged that the readiness of VLLM failed, or that the
\* model path is missing.
VllmFailed ==
    \E i \in DOMAIN log :
        log[i] \in {<<"died while starting", VLLM>>,
                    <<"Timeout waiting for VLLM", VLLM>>,
                    <<"model path required", VLLM>>}

\* C31: with local VLLM, when no model path was given, when the VLLM child
\* has exited at a probe of the readiness wait, or when the wait is over
\* without an answer 200 of /v1/models, start_services reports failure; and
\* after such a failure the API server, the workers, the scheduler and the
\* MCP server have not been launched.
C31_VllmFailureLaunchesNothing ==
    /\ [](VllmFailed =>
            /\ launcher.start_local_vllm
            /\ ReportsFailure
            /\ \A s \in AfterVllm : children[s] = "absent")
    /\ [][SupervisorStep =>
            /\ (pc.at = "start" /\ launcher.start_local_vllm /\ launcher.vllm_model_path = Null)
                  => (ReportsFailure' /\ VllmFailed')
            /\ (pc.at = "wait_for_vllm" /\ children[VLLM] = "exited")
                  => (ReportsFailure' /\ VllmFailed')
            /\ (pc.at = "wait_for_vllm" /\ pc.i >= MaxProbes)
                  => (ReportsFailure' /\ VllmFailed')]_vars

\* C31 witness: the VLLM child exited during the readiness wait and the
\* supervisor reported the failure.
C31_Witness ==
    /\ ReportsFailure
    /\ children[VLLM] = "exited"
    /\ \E i \in DOMAIN log : log[i] = <<"died while starting", VLLM>>

\* C32: when the supervisor has exited, whatever made it exit (a signal, a
\* child found dead in the wait loop, a failure of start_services), no child
\* it launched is still running.
C32_NoChildOutlivesSupervisor ==
    pc.at = "exited" => \A s \in Services : ~(children[s] \in {"running", "serving"})

\* C32, the part the code keeps: when the supervisor has exited through
\* stop_services (a signal, a child found dead in the wait loop, an exception
\* in start_services), every child recorded in self.processes has exited.
C32_StopServicesStopsRecorded ==
    (pc.at = "exited" /\ exit_status = <<0>>) =>
        \A s \in Services :
            (\E i \in DOMAIN processes : processes[i] = s) => children[s] = "exited"

\* C33: the supervisor exits with status 0 only after a signal asked it to
\* stop; when starting fails (start_services returns False, or raises) or a
\* child is found dead in the wait loop, the status is not 0.
C33_ZeroStatusOnlyAfterSignal ==
    (pc.at = "exited" /\ exit_status = <<0>>) => SignalsReceived > 0

\* C33, the part the code keeps: a supervisor that has exited has a status;
\* after a signal it is 0, after a False of start_services it is 1, and the
\* status is 0 or 1.
C33_StatusOfSignalAndOfReturnFalse ==
    pc.at = "exited" =>
        /\ exit_status \in {<<0>>, <<1>>}
        /\ SignalsReceived > 0 => exit_status = <<0>>
        /\ (\E i \in DOMAIN log :
               log[i][1] \in {"died while starting", "Timeout waiting for VLLM",
                              "model path required", "failed to start"})
              => exit_status = <<1>>

(***************************************************************************)
(* The pipeline of the engine across parse calls, under SpecEngine.        *)
(***************************************************************************)
\* The instances that hold a pipeline.
WithPipeline == {i \in DOMAIN instances : instances[i].pipeline # <<>>}

\* Thread t is in parse after _load_pipeline returned.
UsesPipeline(t) == threads[t].pc \in {"predict", "save", "finally"}

\* C34: under every interleaving of parse calls (each ending with cleanup)
\* PaddleOCRVL is constructed at most once with success: threads that enter
\* their first parse together construct one pipeline, a pipeline recorded is
\* never removed or replaced (cleanup leaves it), every parse past
\* _load_pipeline works with the one recorded.  A load that raises records
\* no pipeline, and a parse that finds none recorded goes to load it.
C34_PipelineConstructedOnce ==
    /\ [](/\ counts.load <= 1
          /\ Cardinality(WithPipeline) = counts.load
          /\ \A t \in Threads :
                UsesPipeline(t) =>
                    /\ threads[t].self \in WithPipeline
                    /\ instances[threads[t].self].pipeline[1].id = 1)
    /\ [][/\ \A i \in WithPipeline : instances'[i].pipeline = instances[i].pipeline
          /\ \A t \in Threads :
                /\ (threads[t].pc = "load_body" /\ threads'[t].pc = "idle")
                      => /\ threads'[t].outcome = "raised"
                         /\ instances'[threads[t].self].pipeline = <<>>
                         /\ counts' = counts
                /\ (/\ threads[t].pc = "load_check"
                    /\ threads'[t].pc # "load_check"
                    /\ instances[threads[t].self].pipeline = <<>>)
                      => threads'[t].pc = "load_lock"]_vars

\* C34 witness: the load of one parse raised, the parse of the other thread
\* loaded the pipeline and returned, cleanup done, the pipeline still there.
C34_Witness ==
    \E t, u \in Threads :
        /\ Back(t, "parse", "raised") /\ ~threads[t].cleaned
        /\ Back(u, "parse", "returned") /\ threads[u].cleaned
        /\ counts.load = 1
        /\ instances[threads[u].self].pipeline # <<>>

(***************************************************************************)
(* The status endpoint over the layouts a worker leaves below result_path: *)
(* the Markdown file named result.md or after the document, directly in    *)
(* result_path or in <name>/auto/ below it, its images in images/ beside   *)
(* it; and the static file service asked for the local URLs the endpoint   *)
(* returned, as the proxy passes them on (without the prefix /api).        *)
(***************************************************************************)
\* The Markdown files of the layouts, relative to result_path.
Layouts == {<<"result.md">>, <<"doc.md">>, <<"doc", "auto", "doc.md">>}

\* The documents of the layouts with the images they come with: one
\* reference, two references to one image, a name that needs escaping.
LayoutDocuments ==
    {<<Documents1, {"x.png"}>>,
     <<<<MdImage("fig", ImagePath("x.png")), HtmlImage(" ", "", ImagePath("x.png"), "")>>,
       {"x.png"}>>,
     <<<<MdImage("two words", ImagePath("a b.png"))>>, {"a b.png"}>>}

InitLayouts ==
    /\ seq = 1
    /\ uploads = {}
    /\ uuids = 0
    /\ cancelling = <<>>
    /\ now = 1
    /\ bucket = {}
    /\ HostIdle
    /\ resp = NoEvent
    /\ tasks = [k \in {1} |-> QueueRow(1, "alice", "completed", 0)]
    /\ \E md \in Layouts, doc \in LayoutDocuments :
          /\ outfiles = {ResultPath(1) \o md}
                            \cup {ResultPath(1) \o Parent(md) \o <<"images", i>> : i \in doc[2]}
          /\ text = (ResultPath(1) \o md) :> doc[1]

\* The segments of a string of characters, split at "/".
RECURSIVE SplitSlash(_, _)
SplitSlash(chars, segment) ==
    IF chars = <<>> THEN <<segment>>
    ELSE IF Head(chars) = "/" THEN <<segment>> \o SplitSlash(Tail(chars), <<>>)
    ELSE SplitSlash(Tail(chars), Append(segment, Head(chars)))

\* The names of the segments of the URLs the endpoint returns.
SegmentNames == {"api", "v1", "files", "output", "1", "images", "x.png", "a%20b.png", "doc", "auto"}

\* The file_path the route /v1/files/output/{file_path:path} gets from a URL
\* /api/v1/files/output/...: what follows the prefix, as segments.
url_file_path(url) ==
    LET parts == Tail(SplitSlash(url, <<>>))
        names == [i \in DOMAIN parts |-> CHOOSE n \in SegmentNames : Chars(n) = parts[i]]
    IN SubSeq(names, 5, Len(names))

\* The references of the content a GET returned that point to the local
\* static file service.
LocalReferences(e) ==
    IF e.op = "get_data" /\ e.code = 200 /\ "content" \in DataKeys(e)
    THEN {i \in DOMAIN Data(e, "content") :
             /\ IsReference(Data(e, "content")[i])
             /\ IsPrefix(API_FILES_OUTPUT \o <<"/">>, Data(e, "content")[i].path)}
    ELSE {}

\* A client follows a local URL of the content it has just received.
FollowLocalUrl ==
    \E i \in LocalReferences(resp) :
        serve_output_file(url_file_path(Data(resp, "content")[i].path))

NextLayouts ==
    \/ GetTaskData
    \/ FollowLocalUrl

SpecLayouts == InitLayouts /\ [][NextLayouts]_vars

(***************************************************************************)
(* Properties of the status endpoint over the layouts, under SpecLayouts.  *)
(* The handler has no await: the requests of concurrent clients are served *)
(* one after the other, in any order.                                      *)
(***************************************************************************)
\* The event is a GET answered with the Markdown of the task, upload_images
\* as given.
MarkdownGet(e, upload_images) ==
    /\ e.op = "get_data" /\ e.code = 200
    /\ UploadImages(e) = upload_images
    /\ "content" \in DataKeys(e)

\* The image files of the task and its cache files.
ImageFiles == {f \in outfiles : Len(f) >= 2 /\ f[Len(f) - 1] = "images"}

CacheFiles == {f \in outfiles : f[Len(f)] = "result_minio.md"}

\* C35: however the GETs with upload_images=true of concurrent clients for
\* one completed task are ordered, each image is put in the object store at
\* most once, result_minio.md once written keeps its content, and these
\* requests all return the same Markdown.
C35_UploadedOnceSameMarkdown ==
    /\ [](Cardinality(bucket) <= Cardinality(ImageFiles))
    /\ [][/\ \A c \in CacheFiles : c \in outfiles' /\ text'[c] = text[c]
          /\ (MarkdownGet(resp, TRUE) /\ MarkdownGet(resp', TRUE))
                => Data(resp', "content") = Data(resp, "content")]_vars

\* C35, the part the code keeps: result_minio.md once written keeps its
\* content, and a GET with upload_images=true that finds it beside the
\* Markdown file it selects returns its content and puts nothing in the
\* object store.
C35_CacheKeptAndServed ==
    [][/\ \A c \in CacheFiles : c \in outfiles' /\ text'[c] = text[c]
       /\ (MarkdownGet(resp', TRUE) /\ resp' # resp /\ CacheFile(resp') \in outfiles)
             => /\ Data(resp', "content") = text[CacheFile(resp')]
                /\ bucket' = bucket]_vars

\* The Markdown file the worker wrote for the task (the files of the result
\* directory that are not caches).
EngineMarkdown ==
    CHOOSE f \in md_files(outfiles, ResultPath(1)) : f[Len(f)] # "result_minio.md"

\* C36: whatever GETs came before, a GET with upload_images=false answered
\* with Markdown does not return result_minio.md: it names the worker's
\* Markdown file, reports images_uploaded false and from_cache false, and
\* its content has no reference into the object store (it is the worker's
\* Markdown with the local URLs).
C36_NoUploadNeverReadsCache ==
    [][(MarkdownGet(resp', FALSE) /\ resp' # resp) =>
          /\ Data(resp', "markdown_file") = EngineMarkdown[Len(EngineMarkdown)]
          /\ Data(resp', "images_uploaded") = FALSE
          /\ Data(resp', "from_cache") = FALSE
          /\ Len(Data(resp', "content")) = Len(text[EngineMarkdown])
          /\ \A i \in DOMAIN Data(resp', "content") :
                IsReference(Data(resp', "content")[i])
                   => ~IsMinioUrl(Data(resp', "content")[i].path)]_vars

\* C36, the part the code keeps: the same, when the worker's Markdown file is
\* named result.md.
C36_NoUploadReadsResultMd ==
    [][(/\ MarkdownGet(resp', FALSE) /\ resp' # resp
        /\ EngineMarkdown[Len(EngineMarkdown)] = "result.md") =>
          /\ Data(resp', "markdown_file") = "result.md"
          /\ Data(resp', "images_uploaded") = FALSE
          /\ Data(resp', "from_cache") = FALSE
          /\ Len(Data(resp', "content")) = Len(text[EngineMarkdown])
          /\ \A i \in DOMAIN Data(resp', "content") :
                IsReference(Data(resp', "content")[i])
                   => ~IsMinioUrl(Data(resp', "content")[i].path)]_vars

\* A client has followed a local URL of the content a GET returned.
FollowStep == resp.op = "get_data" /\ resp'.op = "serve"

\* The images directory beside the Markdown file the GET selected.
ImageDirOf(e) == Parent(select_md_file(Listing(e))) \o <<"images">>

\* C37: a local URL the rewrite produced for a completed task, asked from
\* the static file service without the prefix /api, is served (no 403, no
\* 404), and the file served is the image of that name in the images
\* directory beside the Markdown file, wherever that file sits below
\* result_path.
C37_LocalUrlIsServed ==
    [][FollowStep =>
          /\ resp'.code = 200
          /\ resp'.body[1].path \in outfiles
          /\ Parent(resp'.body[1].path) = ImageDirOf(resp)]_vars

\* C37, the part the code keeps: the same, when the Markdown file sits
\* directly in result_path.
C37_LocalUrlIsServedInResultPath ==
    [][(FollowStep /\ Parent(select_md_file(Listing(resp))) = ResultPath(1)) =>
          /\ resp'.code = 200
          /\ resp'.body[1].path \in outfiles
          /\ Parent(resp'.body[1].path) = ImageDirOf(resp)
          /\ quote(Chars(resp'.body[1].filename)) = Chars(resp'.req[1][Len(resp'.req[1])])]_vars

(***************************************************************************)
(* The uploads directory across submits and cancels, under Spec.           *)
(***************************************************************************)
\* The rows whose file_path is the file f of the uploads directory.
RowsOf(f) == {k \in DOMAIN tasks : tasks[k].file_path = <<UPLOAD_DIR, f>>}

\* C38: after any submits and cancels, the submits answered 500 after the
\* upload was written included, every file of the uploads directory is the
\* file_path of a row that is not cancelled.
C38_NoOrphanedUpload ==
    \A f \in uploads : \E k \in RowsOf(f) : tasks[k].status # "cancelled"

\* C38, the part the code keeps: the file of a cancelled row is not in the
\* uploads directory, and a file enters the directory only by a submit, with
\* its row when the submit is answered 200.
C38_UploadsOfRowsAndFailedSubmits ==
    /\ [](\A k \in DOMAIN tasks :
             tasks[k].status = "cancelled" => ~(tasks[k].file_path[2] \in uploads))
    /\ [][\A f \in uploads' \ uploads :
             /\ resp'.op = "submit"
             /\ resp'.code \in {200, 500}
             /\ resp'.code = 200 =>
                   /\ resp'.task_id \in DOMAIN tasks'
                   /\ tasks'[resp'.task_id].file_path = <<UPLOAD_DIR, f>>
                   /\ tasks'[resp'.task_id].status = "pending"]_vars

(***************************************************************************)
(* The status endpoint when reading or rewriting the results raises.       *)
(***************************************************************************)
\* Task 1 completed with result.md on disk, with or without content.json,
\* with or without the image the document references.
InitFaults ==
    /\ seq = 1
    /\ uploads = {}
    /\ uuids = 0
    /\ cancelling = <<>>
    /\ now = 1
    /\ bucket = {}
    /\ HostIdle
    /\ resp = NoEvent
    /\ tasks = [k \in {1} |-> QueueRow(1, "alice", "completed", 0)]
    /\ \E json \in SUBSET {"content.json"}, images \in SUBSET {"x.png"} :
          /\ outfiles = {ResultPath(1) \o <<f>> : f \in {"result.md"} \cup json}
                            \cup {ResultPath(1) \o <<"images", i>> : i \in images}
          /\ text = (ResultPath(1) \o <<"result.md">>) :> Documents1

NextFaults ==
    \/ GetTaskData
    \/ GetTaskDataFaults

SpecFaults == InitFaults /\ [][NextFaults]_vars

\* What raised in the request of an event, and whether its write of the
\* cache could succeed.
Faults(e) == e.req[6]

DiskOk(e) == e.req[4]

\* alice's GET for her completed task 1 with a Markdown file on disk is
\* answered, Markdown being asked for.
MarkdownAsked ==
    /\ resp'.op = "get_data" /\ resp'.caller = "alice" /\ resp'.task_id = 1
    /\ resp' # resp
    /\ Format(resp') \in {"markdown", "both"}
    /\ HasMarkdown(outfiles, tasks[1])

\* The request goes to process_markdown_images: it does not find the cache
\* and the images directory is there.
Rewrites ==
    /\ ~(UploadImages(resp') /\ CacheFile(resp') \in outfiles)
    /\ \E f \in outfiles :
          IsPrefix(Parent(select_md_file(Listing(resp'))) \o <<"images">>, f)

\* The response is 200 with the status fields of the row.
Succeeds ==
    /\ resp'.code = 200
    /\ resp'.body[1].task_id = 1
    /\ resp'.body[1].status = tasks[1].status

\* The data of the response is null.
NullData == "data" \in DOMAIN resp'.body[2] /\ resp'.body[2]["data"] = <<>>

\* The response is the one the same request gets when the write of the
\* cache succeeds.
AsIfCacheWritten ==
    resp'.body[2] = load_content(tasks[1], outfiles, text, uuids, UploadImages(resp'),
                                 Format(resp'), resp'.req[3], TRUE, Listing(resp'),
                                 Faults(resp')).extra

\* C39 as stated: when the read of the Markdown or the rewriting raises, the
\* GET is answered 200 with the status fields and data null; a failure of
\* the write of the cache alone leaves the content returned as it is without
\* the failure.
C39_ErrorsGiveNullData ==
    [][MarkdownAsked =>
          /\ READ_ERROR \in Faults(resp') => (Succeeds /\ NullData)
          /\ (REWRITE_ERROR \in Faults(resp') /\ Rewrites) => (Succeeds /\ NullData)
          /\ ~DiskOk(resp') => (Succeeds /\ AsIfCacheWritten)]_vars

\* C39 amended: when the read of the Markdown raises, the GET is answered
\* 200 with the status fields and data null, nothing uploaded and no file
\* written; when the rewriting raises, it is answered 200 with the Markdown
\* as read, not rewritten; a failure of the write of the cache alone leaves
\* the content returned as it is without the failure.
C39_ReadErrorGivesNullData ==
    [][MarkdownAsked =>
          /\ READ_ERROR \in Faults(resp') =>
                (Succeeds /\ NullData /\ NoUpload /\ DiskUnchanged)
          /\ (REWRITE_ERROR \in Faults(resp') /\ Rewrites) =>
                /\ Succeeds
                /\ "content" \in DataKeys(resp')
                /\ Data(resp', "content") = text[select_md_file(Listing(resp'))]
                /\ NoUpload
          /\ ~DiskOk(resp') => (Succeeds /\ AsIfCacheWritten)]_vars

\* C39 witness: the read of the Markdown raised and the GET was answered 200
\* with data null, the results being on disk with their images.
C39_Witness ==
    /\ resp.op = "get_data" /\ resp.code = 200
    /\ Faults(resp) = {READ_ERROR}
    /\ "data" \in DOMAIN resp.body[2] /\ resp.body[2]["data"] = <<>>
    /\ Listing(resp) # <<>>
    /\ ReferencesImages(outfiles, resp)

====
